---------------------------- MODULE Spec2Model ----------------------------
(***************************************************************************)
(* A model of the school-scheduler backend (src/backend/solver.py):        *)
(* generate_schedules and the functions it calls.                          *)
(*                                                                         *)
(* Encoding.  Days and blocks are their indices 0..4 in DAYS and BLOCKS,   *)
(* a slot is day*5+block.  A grade is its number n >= 1, standing for the  *)
(* name "<n>th Grade"; the database grade list is given in ascending       *)
(* order.  A grade display is the pair <<lo, hi>>: <<n, n>> is the name of *)
(* grade n, <<lo, hi>> with lo < hi is the range string "<lo>-<hi> Grade", *)
(* <<0, 0>> is the empty string.  A teacher-grid cell [grade_display,      *)
(* subject] is the record [d, s]; Python's None is NoneCell.  A grade-grid *)
(* cell [teacher, subject] is the record [t, s]; None is NoneGCell.        *)
(* The CP-SAT service is a black box: a solve call returns any list of     *)
(* distinct assignments that satisfy the constraints the code emitted.     *)
(***************************************************************************)
EXTENDS Integers, Sequences, FiniteSets, TLC

\* ------------------------------------------------------------------
\* Program constants
\* ------------------------------------------------------------------
NumDays == 5
NumBlocks == 5
NUM_SLOTS == 25
MaxLoad == 25
MaxUnique == 30
RepairPasses == 2000
StudyHallTarget == 5
MaxSolutionsPerSeed == 5

DAYS == 0 .. (NumDays - 1)
BLOCKS == 0 .. (NumBlocks - 1)
Slots == 0 .. (NUM_SLOTS - 1)

slot_to_day(slot) == slot \div 5

slot_to_block(slot) == slot % 5

day_block_to_slot(day_idx, block_idx) == day_idx * 5 + block_idx

\* ------------------------------------------------------------------
\* Generic helpers on sequences and sets
\* ------------------------------------------------------------------
Range(seq) == {seq[i] : i \in DOMAIN seq}

RECURSIVE SumSeq(_)
SumSeq(seq) == IF seq = <<>> THEN 0 ELSE Head(seq) + SumSeq(Tail(seq))

RECURSIVE SetToSeq(_)
\* An ascending enumeration of a finite set of integers.
SetToSeq(S) ==
  IF S = {} THEN <<>>
  ELSE LET m == CHOOSE x \in S : \A y \in S : x <= y
       IN <<m>> \o SetToSeq(S \ {m})

\* ------------------------------------------------------------------
\* Cells
\* ------------------------------------------------------------------
NoDisp == <<0, 0>>
NoneCell == [d |-> NoDisp, s |-> "None"]
OpenCell == [d |-> NoDisp, s |-> "OPEN"]
NoneGCell == [t |-> "", s |-> "None"]

\* entry is None, or entry[1] in ('OPEN', 'Study Hall')
IsOpenLike(cell) == cell.s \in {"None", "OPEN", "Study Hall"}

\* a class: not None, a non-empty display, not OPEN / Study Hall
IsTeaching(cell) == cell.s \notin {"None", "OPEN", "Study Hall"}

EmptyGrid == [sl \in Slots |-> NoneCell]
EmptyGGrid == [sl \in Slots |-> NoneGCell]

\* ------------------------------------------------------------------
\* Rules
\* ------------------------------------------------------------------
RECURSIVE is_rule_enabled(_, _)
is_rule_enabled(rules, rule_key) ==
  IF rules = <<>> THEN TRUE
  ELSE IF Head(rules).rule_key = rule_key THEN Head(rules).enabled
  ELSE is_rule_enabled(Tail(rules), rule_key)

RECURSIVE get_rule_config(_, _)
\* The config of the first rule with this key; the rules of the model carry
\* the study-hall grade list and the two eligibility flags.
get_rule_config(rules, rule_key) ==
  IF rules = <<>> THEN [grades |-> <<>>, allow_full_time |-> TRUE, allow_part_time |-> FALSE]
  ELSE IF Head(rules).rule_key = rule_key THEN Head(rules).config
  ELSE get_rule_config(Tail(rules), rule_key)

get_study_hall_grades(rules) ==
  IF ~is_rule_enabled(rules, "study_hall_grades") THEN <<>>
  ELSE get_rule_config(rules, "study_hall_grades").grades

get_study_hall_eligible_statuses(rules) ==
  IF ~is_rule_enabled(rules, "study_hall_teacher_eligibility") THEN {"full-time"}
  ELSE LET config == get_rule_config(rules, "study_hall_teacher_eligibility")
           statuses == (IF config.allow_full_time THEN {"full-time"} ELSE {})
                       \cup (IF config.allow_part_time THEN {"part-time"} ELSE {})
       IN IF statuses = {} THEN {"full-time"} ELSE statuses

\* canSuperviseStudyHall is "None", "True" or "False"
get_study_hall_eligible(teachers, rules) ==
  LET allowed == get_study_hall_eligible_statuses(rules)
      keep(t) == t.status \in allowed /\ t.can_supervise_study_hall # "True"
      sel == SelectSeq(teachers, keep)
  IN [i \in DOMAIN sel |-> sel[i].name]

\* ------------------------------------------------------------------
\* Grade names and displays
\* ------------------------------------------------------------------
SetMin(S) == CHOOSE x \in S : \A y \in S : x <= y
SetMax(S) == CHOOSE x \in S : \A y \in S : x >= y

\* parse_grades_from_database on a display: the direct match, the range
\* match against the numbers of the database grades, the single number.
parse_grades_from_database(disp, database_grades) ==
  IF disp[1] = disp[2] /\ disp[1] \in database_grades THEN {disp[1]}
  ELSE IF disp[1] # disp[2] /\ disp[1] > 0 /\ disp[2] > 0 /\ disp[1] <= disp[2]
          /\ {g \in database_grades : g >= disp[1] /\ g <= disp[2]} # {}
       THEN {g \in database_grades : g >= disp[1] /\ g <= disp[2]}
  ELSE {g \in database_grades : g = disp[1]}

\* parse_grades: the database-free parse used as a fallback by the repair
parse_grades(disp) ==
  IF disp[1] # disp[2] /\ disp[1] > 0 /\ disp[2] > 0 /\ disp[1] <= disp[2]
  THEN disp[1] .. disp[2]
  ELSE IF disp[1] >= 1 THEN {disp[1]} ELSE {}

\* make_grade_display: '' for no grade, the name for one grade, else
\* "<first>-<last> Grade" of the grades sorted in database order
make_grade_display(grades_list) ==
  IF grades_list = {} THEN NoDisp
  ELSE IF Cardinality(grades_list) = 1 THEN <<SetMin(grades_list), SetMin(grades_list)>>
  ELSE <<SetMin(grades_list), SetMax(grades_list)>>

\* normalize_grades on a list of grade names
normalize_grades(grades_input, active_grades_set) ==
  UNION {parse_grades_from_database(<<g, g>>, active_grades_set) : g \in grades_input}

\* ------------------------------------------------------------------
\* Input conversion (generate_schedules, "Convert dicts to dataclasses")
\* ------------------------------------------------------------------
ToClassEntry(c, active_grades_set) ==
  LET grades_list == normalize_grades(c.grades, active_grades_set)
  IN [teacher |-> c.teacher,
      grades |-> grades_list,
      grade_display |-> make_grade_display(grades_list),
      subject |-> c.subject,
      days_per_week |-> c.daysPerWeek,
      is_elective |-> c.isElective,
      available_days |-> IF c.availableDays = {} THEN DAYS ELSE c.availableDays,
      available_blocks |-> IF c.availableBlocks = {} THEN BLOCKS ELSE c.availableBlocks,
      fixed_slots |-> c.fixedSlots]

ClassObjs(classes, active_grades_set) ==
  [i \in DOMAIN classes |-> ToClassEntry(classes[i], active_grades_set)]

full_time_names(teachers) ==
  LET ft(t) == t.status = "full-time"
      sel == SelectSeq(teachers, ft)
  IN [i \in DOMAIN sel |-> sel[i].name]

\* ------------------------------------------------------------------
\* build_sessions
\* ------------------------------------------------------------------
get_valid_slots(avail_days, avail_blocks) ==
  LET slots == {day_block_to_slot(d, b) : d \in avail_days \cap DAYS, b \in avail_blocks \cap BLOCKS}
  IN IF slots # {} THEN slots ELSE Slots

\* len(cls.fixed_slots) if cls.fixed_slots else cls.days_per_week
ClassCount(cls) == IF cls.fixed_slots # <<>> THEN Len(cls.fixed_slots) ELSE cls.days_per_week

teacher_session_count(classes, teacher) ==
  SumSeq([i \in DOMAIN classes |->
            IF classes[i].teacher = teacher THEN ClassCount(classes[i]) ELSE 0])

teacher_total_slots(classes, teacher) ==
  SumSeq([i \in DOMAIN classes |->
            IF classes[i].teacher # teacher THEN 0
            ELSE IF classes[i].fixed_slots # <<>> THEN Len(classes[i].fixed_slots)
            ELSE Cardinality(get_valid_slots(classes[i].available_days, classes[i].available_blocks))
                 * classes[i].days_per_week])

ValidFixed(fs) == fs[1] \in DAYS /\ fs[2] \in BLOCKS

\* build_sessions without the blocking by fixed electives
NoBlockedSlots(classes, all_grades, grade) == {}

\* Slots that fixed electives pin, per grade of the database list
grade_blocked_slots(classes, all_grades, grade) ==
  IF grade \notin all_grades THEN {}
  ELSE {day_block_to_slot(classes[i].fixed_slots[k][1], classes[i].fixed_slots[k][2]) :
          <<i, k>> \in {p \in (DOMAIN classes) \X (1 .. NUM_SLOTS) :
                          /\ classes[p[1]].is_elective
                          /\ p[2] \in DOMAIN classes[p[1]].fixed_slots
                          /\ ValidFixed(classes[p[1]].fixed_slots[p[2]])
                          /\ grade \in classes[p[1]].grades}}

MakeSession(cls, valid_slots, is_fixed) ==
  [teacher |-> cls.teacher,
   grades |-> cls.grades,
   grade_display |-> cls.grade_display,
   subject |-> cls.subject,
   valid_slots |-> valid_slots,
   is_fixed |-> is_fixed,
   is_elective |-> cls.is_elective]

\* locked_teachers is the list of (name, schedule) items of the dict, empty
\* when the call is not a partial regeneration
LockedNames(locked_teachers) == {locked_teachers[i].name : i \in DOMAIN locked_teachers}

\* The slots where a locked teacher teaches a class the grade is part of
locked_grade_slots(locked_teachers, all_grades, grade) ==
  {sl \in Slots : \E i \in DOMAIN locked_teachers :
     /\ IsTeaching(locked_teachers[i].schedule[sl])
     /\ grade \in parse_grades_from_database(locked_teachers[i].schedule[sl].d, all_grades)}

\* The days on which a locked teacher teaches the subject to the grade
locked_grade_subject_days(locked_teachers, all_grades, grade, subject) ==
  {slot_to_day(sl) : sl \in {c \in Slots : \E i \in DOMAIN locked_teachers :
     /\ IsTeaching(locked_teachers[i].schedule[c])
     /\ locked_teachers[i].schedule[c].s = subject
     /\ grade \in parse_grades_from_database(locked_teachers[i].schedule[c].d, all_grades)}}

\* The domain of a non-fixed class: its availability minus, for a regular
\* class with grades, the slots blocked for one of its grades by a fixed
\* elective or a locked teacher, and the days a locked teacher has the subject
ClassValidSlots(cls, classes, all_grades, locked_teachers) ==
  LET valid_slots == get_valid_slots(cls.available_days, cls.available_blocks)
      blocked == UNION {grade_blocked_slots(classes, all_grades, g)
                          \cup locked_grade_slots(locked_teachers, all_grades, g) : g \in cls.grades}
      blocked_days == UNION {locked_grade_subject_days(locked_teachers, all_grades, g, cls.subject) :
                               g \in cls.grades}
  IN IF ~cls.is_elective /\ cls.grades # {}
     THEN {sl \in valid_slots \ blocked : slot_to_day(sl) \notin blocked_days}
     ELSE valid_slots

ClassSessions(cls, classes, all_grades, locked_teachers) ==
  IF cls.fixed_slots # <<>>
  THEN LET ok == SelectSeq(cls.fixed_slots, ValidFixed)
       IN [k \in DOMAIN ok |-> MakeSession(cls, {day_block_to_slot(ok[k][1], ok[k][2])}, TRUE)]
  ELSE [k \in 1 .. cls.days_per_week |->
          MakeSession(cls, ClassValidSlots(cls, classes, all_grades, locked_teachers), FALSE)]

RECURSIVE UnsortedSessions(_, _, _, _, _)
UnsortedSessions(classes, i, all, all_grades, locked_teachers) ==
  IF i > Len(classes) THEN <<>>
  ELSE ClassSessions(classes[i], all, all_grades, locked_teachers)
       \o UnsortedSessions(classes, i + 1, all, all_grades, locked_teachers)

\* sort_key(a) < sort_key(b): (0 if fixed else 1, -load/flexibility, len(valid_slots)),
\* with load = n sessions and flexibility = total_slots / n, so the score is -n*n/total_slots
SortKeyLess(a, b, classes) ==
  LET fa == IF a.is_fixed THEN 0 ELSE 1
      fb == IF b.is_fixed THEN 0 ELSE 1
      na == teacher_session_count(classes, a.teacher)
      nb == teacher_session_count(classes, b.teacher)
      sa == teacher_total_slots(classes, a.teacher)
      sb == teacher_total_slots(classes, b.teacher)
      la == Cardinality(a.valid_slots)
      lb == Cardinality(b.valid_slots)
  IN \/ fa < fb
     \/ fa = fb /\ na * na * sb > nb * nb * sa
     \/ fa = fb /\ na * na * sb = nb * nb * sa /\ la < lb

RECURSIVE InsertSorted(_, _, _)
\* a stable insertion: x goes after every element whose key is not greater
InsertSorted(sorted, x, classes) ==
  IF sorted = <<>> THEN <<x>>
  ELSE IF SortKeyLess(x, Head(sorted), classes) THEN <<x>> \o sorted
  ELSE <<Head(sorted)>> \o InsertSorted(Tail(sorted), x, classes)

RECURSIVE SortSessions(_, _, _)
SortSessions(done, rest, classes) ==
  IF rest = <<>> THEN done
  ELSE SortSessions(InsertSorted(done, Head(rest), classes), Tail(rest), classes)

\* The sorted session list; a session's id is its index - 1
build_sessions(classes, locked_teachers, grades) ==
  SortSessions(<<>>, UnsortedSessions(classes, 1, classes, Range(grades), locked_teachers), classes)

\* ------------------------------------------------------------------
\* solve_with_cpsat: the constraints emitted, and the assignments they admit
\* ------------------------------------------------------------------
\* The indices of the sessions of one teacher in a (grade, subject) group,
\* in session-list order (by_teacher[teacher])
GroupSessions(sessions, grade, subject, teacher) ==
  SetToSeq({i \in DOMAIN sessions : /\ grade \in sessions[i].grades
                                    /\ sessions[i].subject = subject
                                    /\ sessions[i].teacher = teacher})

GroupTeachers(sessions, grade, subject) ==
  {sessions[i].teacher : i \in {k \in DOMAIN sessions : /\ grade \in sessions[k].grades
                                                        /\ sessions[k].subject = subject}}

\* teacher_list[0]: the teacher of the first session of the group
FirstTeacher(sessions, grade, subject) ==
  sessions[SetMin({k \in DOMAIN sessions : /\ grade \in sessions[k].grades
                                           /\ sessions[k].subject = subject})].teacher

\* The pairs <<s1, s2>> for which model.Add(slot_vars[s1] == slot_vars[s2]) is emitted
CotaughtPairsOf(sessions, grade, subject) ==
  IF Cardinality(GroupTeachers(sessions, grade, subject)) <= 1 THEN {}
  ELSE LET first == GroupSessions(sessions, grade, subject, FirstTeacher(sessions, grade, subject))
       IN UNION {LET other == GroupSessions(sessions, grade, subject, t)
                 IN {<<first[i], other[i]>> :
                       i \in {k \in DOMAIN first :
                                /\ k <= Len(other)
                                /\ ~(/\ sessions[first[k]].is_fixed
                                     /\ sessions[other[k]].is_fixed
                                     /\ sessions[first[k]].valid_slots = sessions[other[k]].valid_slots)}}
                 : t \in GroupTeachers(sessions, grade, subject) \ {FirstTeacher(sessions, grade, subject)}}

\* The model without any co-taught equality
CotaughtPairsNone(sessions) == {}

CotaughtPairs(sessions) ==
  UNION {CotaughtPairsOf(sessions, gs[1], gs[2]) :
           gs \in UNION {sessions[i].grades \X {sessions[i].subject} : i \in DOMAIN sessions}}

\* The widest session domain for which the model lists every feasible assignment
NarrowDomain == 4

\* The model without the AllDifferent of a teacher's sessions
TeacherConstraintDropped(a, b, sa, sb) == TRUE

\* Hard Constraint 1: AllDifferent over the sessions of one teacher
TeacherConstraint(a, b, sa, sb) == a.teacher = b.teacher => sa # sb

\* The model that keeps only regular sessions of a grade apart
GradeConstraintRegularOnly(a, b, sa, sb, active_grades) ==
  (/\ a.grades \cap b.grades \cap active_grades # {}
   /\ ~a.is_elective /\ ~b.is_elective) => sa # sb

\* Hard Constraint 2, for the grades of active_grades: regular sessions of a
\* grade all differ, a regular and an elective session of a grade differ
GradeConstraint(a, b, sa, sb, active_grades) ==
  (/\ a.grades \cap b.grades \cap active_grades # {}
   /\ ~(a.is_elective /\ b.is_elective)) => sa # sb

\* The model without the different-days constraint
SubjectDayConstraintDropped(a, b, sa, sb, active_grades) == TRUE

\* Hard Constraint 3: two regular sessions of a grade and subject fall on different days
SubjectDayConstraint(a, b, sa, sb, active_grades) ==
  (/\ a.grades \cap b.grades \cap active_grades # {}
   /\ a.subject = b.subject
   /\ ~a.is_elective /\ ~b.is_elective) => (sa \div 5) # (sb \div 5)

\* Every constraint between session i at slot si and session j at slot sj
PairOk(sessions, i, j, si, sj, no_dup, active_grades, pairs) ==
  /\ TeacherConstraint(sessions[i], sessions[j], si, sj)
  /\ GradeConstraint(sessions[i], sessions[j], si, sj, active_grades)
  /\ no_dup => SubjectDayConstraint(sessions[i], sessions[j], si, sj, active_grades)
  /\ (<<i, j>> \in pairs \/ <<j, i>> \in pairs) => si = sj

RECURSIVE ExtendAssignments(_, _, _, _, _, _)
\* The assignments of sessions 1..k-1 in partials, extended to all sessions
ExtendAssignments(partials, k, sessions, no_dup, active_grades, pairs) ==
  IF k > Len(sessions) \/ partials = {} THEN partials
  ELSE ExtendAssignments(
         UNION {{Append(p, sl) :
                   sl \in {x \in sessions[k].valid_slots :
                             \A j \in 1 .. (k - 1) :
                               PairOk(sessions, j, k, p[j], x, no_dup, active_grades, pairs)}}
                : p \in partials},
         k + 1, sessions, no_dup, active_grades, pairs)

\* Every assignment (session index -> slot) the emitted model admits
FeasibleAssignments(sessions, rules, active_grades) ==
  ExtendAssignments({<<>>}, 1, sessions, is_rule_enabled(rules, "no_duplicate_subjects"),
                    Range(active_grades), CotaughtPairs(sessions))

RECURSIVE Reverse(_)
Reverse(seq) == IF seq = <<>> THEN <<>> ELSE Append(Reverse(Tail(seq)), Head(seq))

RECURSIVE FirstAssignment(_, _, _, _, _, _, _)
RECURSIVE TrySlots(_, _, _, _, _, _, _, _, _)
\* The first complete assignment a depth-first search finds that extends
\* partial, trying the slots of each session in ascending (up) or descending
\* order: {} when there is none, else a singleton
FirstAssignment(partial, k, sessions, no_dup, active_grades, pairs, up) ==
  IF k > Len(sessions) THEN {partial}
  ELSE LET ok == {x \in sessions[k].valid_slots :
                    \A j \in 1 .. (k - 1) :
                      PairOk(sessions, j, k, partial[j], x, no_dup, active_grades, pairs)}
       IN TrySlots(partial, k, IF up THEN SetToSeq(ok) ELSE Reverse(SetToSeq(ok)), 1,
                   sessions, no_dup, active_grades, pairs, up)

TrySlots(partial, k, slots, n, sessions, no_dup, active_grades, pairs, up) ==
  IF n > Len(slots) THEN {}
  ELSE LET found == FirstAssignment(Append(partial, slots[n]), k + 1, sessions, no_dup,
                                    active_grades, pairs, up)
       IN IF found # {} THEN found
          ELSE TrySlots(partial, k, slots, n + 1, sessions, no_dup, active_grades, pairs, up)

\* The assignments a solve call draws from.  Every feasible assignment when
\* each session has at most NarrowDomain slots; for wider domains, whose
\* feasible assignments are too many to list, the first and the last feasible
\* assignment in lexicographic order.
SolverPool(sessions, rules, active_grades) ==
  IF \A i \in DOMAIN sessions : Cardinality(sessions[i].valid_slots) <= NarrowDomain
  THEN FeasibleAssignments(sessions, rules, active_grades)
  ELSE FirstAssignment(<<>>, 1, sessions, is_rule_enabled(rules, "no_duplicate_subjects"),
                       Range(active_grades), CotaughtPairs(sessions), TRUE)
       \cup FirstAssignment(<<>>, 1, sessions, is_rule_enabled(rules, "no_duplicate_subjects"),
                            Range(active_grades), CotaughtPairs(sessions), FALSE)

\* A session with an empty domain gets no variable: slot_vars[s.id] raises KeyError
HasEmptyDomain(sessions) == \E i \in DOMAIN sessions : sessions[i].valid_slots = {}

\* ------------------------------------------------------------------
\* build_schedules
\* ------------------------------------------------------------------
SessionTeachers(sessions) == {sessions[i].teacher : i \in DOMAIN sessions}

RECURSIVE FillTeacher(_, _, _, _)
FillTeacher(ts, assignment, sessions, i) ==
  IF i > Len(sessions) THEN ts
  ELSE FillTeacher(
         [ts EXCEPT ![sessions[i].teacher][assignment[i]] =
                      [d |-> sessions[i].grade_display, s |-> sessions[i].subject]],
         assignment, sessions, i + 1)

RECURSIVE FillGrade(_, _, _, _)
FillGrade(gs, assignment, sessions, i) ==
  IF i > Len(sessions) THEN gs
  ELSE FillGrade(
         [g \in DOMAIN gs |->
            IF g \in sessions[i].grades
            THEN [gs[g] EXCEPT ![assignment[i]] = [t |-> sessions[i].teacher, s |-> sessions[i].subject]]
            ELSE gs[g]],
         assignment, sessions, i + 1)

\* <<teacher_schedules, grade_schedules>>
build_schedules(assignment, sessions, grades) ==
  <<FillTeacher([t \in SessionTeachers(sessions) |-> EmptyGrid], assignment, sessions, 1),
    FillGrade([g \in Range(grades) |-> EmptyGGrid], assignment, sessions, 1)>>

\* ------------------------------------------------------------------
\* add_study_halls
\* ------------------------------------------------------------------
\* Remaining empty (None) cells of a teacher
count_open_blocks(ts, teacher) ==
  IF teacher \notin DOMAIN ts THEN NUM_SLOTS
  ELSE Cardinality({sl \in Slots : ts[teacher][sl] = NoneCell})

RECURSIVE InsertByAvailability(_, _, _)
\* sorted(..., key=count_open_blocks, reverse=True) is stable: a teacher goes
\* after every teacher with at least as many open blocks
InsertByAvailability(sorted, t, ts) ==
  IF sorted = <<>> THEN <<t>>
  ELSE IF count_open_blocks(ts, t) > count_open_blocks(ts, Head(sorted)) THEN <<t>> \o sorted
  ELSE <<Head(sorted)>> \o InsertByAvailability(Tail(sorted), t, ts)

RECURSIVE SortByAvailability(_, _, _)
SortByAvailability(done, rest, ts) ==
  IF rest = <<>> THEN done
  ELSE SortByAvailability(InsertByAvailability(done, Head(rest), ts), Tail(rest), ts)

StudyHallCell(group) == [d |-> <<group, group>>, s |-> "Study Hall"]

Unplaced(group) == [group |-> group, teacher |-> "", day |-> -1, block |-> -1]

\* The cell of a grade that may be missing from grade_schedules
GradeCell(gs, g, sl) == IF g \in DOMAIN gs THEN gs[g][sl] ELSE NoneGCell

\* A placement that does not look at the grade's grid
PlacementChoicesAnyGradeCell(st, group, teachers_by_availability) ==
  {c \in (DOMAIN teachers_by_availability) \X Slots :
     /\ slot_to_day(c[2]) \notin st.sh_days[group]
     /\ st.ts[teachers_by_availability[c[1]]][c[2]] = NoneCell}

\* The (teacher rank, slot) pairs try_place_study_hall accepts for one grade
PlacementChoices(st, group, teachers_by_availability) ==
  {c \in (DOMAIN teachers_by_availability) \X Slots :
     /\ slot_to_day(c[2]) \notin st.sh_days[group]
     /\ st.ts[teachers_by_availability[c[1]]][c[2]] = NoneCell
     /\ GradeCell(st.gs, group, c[2]) = NoneGCell}

LexMin(S) ==
  CHOOSE c \in S : \A e \in S : c[1] < e[1] \/ (c[1] = e[1] /\ c[2] <= e[2])

\* try_place_study_hall(grade, [grade]) followed by the bookkeeping of its caller
PlaceStudyHall(st, group, valid_teachers) ==
  LET order == SortByAvailability(<<>>, valid_teachers, st.ts)
      choices == PlacementChoices(st, group, order)
  IN IF choices = {}
     THEN [st EXCEPT !.failed = Append(@, group)]
     ELSE LET c == LexMin(choices)
              teacher == order[c[1]]
          IN [ts |-> [st.ts EXCEPT ![teacher][c[2]] = StudyHallCell(group)],
              gs |-> [g \in DOMAIN st.gs |->
                        IF g = group
                        THEN [st.gs[g] EXCEPT ![c[2]] = [t |-> teacher, s |-> "Study Hall"]]
                        ELSE st.gs[g]],
              sh_days |-> [st.sh_days EXCEPT ![group] = @ \cup {slot_to_day(c[2])}],
              placed |-> st.placed \cup {group},
              failed |-> st.failed,
              assignments |-> Append(st.assignments,
                                     [group |-> group, teacher |-> teacher,
                                      day |-> slot_to_day(c[2]), block |-> slot_to_block(c[2])])]

RECURSIVE PlaceAll(_, _, _, _)
PlaceAll(st, study_hall_grades, i, valid_teachers) ==
  IF i > Len(study_hall_grades) THEN st
  ELSE IF study_hall_grades[i] \in st.placed
       THEN PlaceAll(st, study_hall_grades, i + 1, valid_teachers)
       ELSE PlaceAll(PlaceStudyHall(st, study_hall_grades[i], valid_teachers),
                     study_hall_grades, i + 1, valid_teachers)

\* Study halls already in grade_schedules, in grade, day, block order
ExistingStudyHalls(gs, all_grades) ==
  LET cells == {c \in (DOMAIN all_grades) \X Slots :
                  /\ all_grades[c[1]] \in DOMAIN gs
                  /\ gs[all_grades[c[1]]][c[2]].s = "Study Hall"}
      RECURSIVE List(_)
      List(S) == IF S = {} THEN <<>>
                 ELSE LET c == LexMin(S)
                      IN <<[group |-> all_grades[c[1]], teacher |-> gs[all_grades[c[1]]][c[2]].t,
                            day |-> slot_to_day(c[2]), block |-> slot_to_block(c[2])]>>
                         \o List(S \ {c})
  IN List(cells)

\* [ts, gs, assignments]: the grids after placement and the list returned
add_study_halls(ts, gs, eligible_teachers, preserve_existing, rules, grades) ==
  LET study_hall_grades == get_study_hall_grades(rules)
      InTs(t) == t \in DOMAIN ts
      valid_teachers == SelectSeq(eligible_teachers, InTs)
      existing == IF preserve_existing THEN ExistingStudyHalls(gs, grades) ELSE <<>>
      st0 == [ts |-> ts, gs |-> gs,
              sh_days |-> [g \in Range(grades) |->
                             {existing[i].day : i \in {k \in DOMAIN existing : existing[k].group = g}}],
              placed |-> {existing[i].group : i \in DOMAIN existing},
              failed |-> <<>>,
              assignments |-> existing]
      st == PlaceAll(st0, study_hall_grades, 1, valid_teachers)
  IN IF study_hall_grades = <<>>
     THEN [ts |-> ts, gs |-> gs, assignments |-> <<>>]
     ELSE IF eligible_teachers = <<>> \/ valid_teachers = <<>>
     THEN [ts |-> ts, gs |-> gs,
           assignments |-> [i \in DOMAIN study_hall_grades |-> Unplaced(study_hall_grades[i])]]
     ELSE [ts |-> st.ts, gs |-> st.gs,
           assignments |-> st.assignments \o [i \in DOMAIN st.failed |-> Unplaced(st.failed[i])]]

\* ------------------------------------------------------------------
\* fill_open_blocks
\* ------------------------------------------------------------------
fill_open_blocks(ts) ==
  [t \in DOMAIN ts |-> [sl \in Slots |-> IF ts[t][sl] = NoneCell THEN OpenCell ELSE ts[t][sl]]]

\* ------------------------------------------------------------------
\* redistribute_open_blocks
\* ------------------------------------------------------------------
\* A teacher's cell; a teacher without a grid reads as None everywhere
TeacherCell(ts, teacher, sl) == IF teacher \in DOMAIN ts THEN ts[teacher][sl] ELSE NoneCell

\* The second slot of every adjacent pair of open / study-hall / empty cells
get_back_to_back_slots(ts, teacher) ==
  {sl \in Slots : /\ slot_to_block(sl) >= 1
                  /\ IsOpenLike(TeacherCell(ts, teacher, sl - 1))
                  /\ IsOpenLike(TeacherCell(ts, teacher, sl))}

\* A check of the previous block alone
WouldCreateBtbBefore(ts, teacher, sl) ==
  slot_to_block(sl) > 0 /\ IsOpenLike(TeacherCell(ts, teacher, sl - 1))

would_create_btb(ts, teacher, sl) ==
  \/ slot_to_block(sl) > 0 /\ IsOpenLike(TeacherCell(ts, teacher, sl - 1))
  \/ slot_to_block(sl) < 4 /\ IsOpenLike(TeacherCell(ts, teacher, sl + 1))

\* The grades the class at target covers: those whose grid shows it there,
\* else the grades parsed from its display
SwapGrades(ts, gs, teacher, target) ==
  LET entry == TeacherCell(ts, teacher, target)
      found == {g \in DOMAIN gs : gs[g][target] = [t |-> teacher, s |-> entry.s]}
  IN IF found # {} THEN found ELSE parse_grades(entry.d)

\* "Check grade conflicts": a grade of the class is occupied at the issue slot
GradeConflict(gs, grades, issue) ==
  \E g \in grades : GradeCell(gs, g, issue) # NoneGCell /\ GradeCell(gs, g, issue).s # "OPEN"

\* "Check subject/day conflict": a grade of the class has the subject in
\* another block of the issue day
SubjectDayConflict(gs, grades, subject, issue) ==
  \E g \in grades : \E b \in BLOCKS :
     /\ b # slot_to_block(issue)
     /\ GradeCell(gs, g, day_block_to_slot(slot_to_day(issue), b)).s = subject

\* The class at target may move to the issue slot
SwapAllowed(ts, gs, teacher, issue, target) ==
  LET entry == TeacherCell(ts, teacher, target)
      grades == SwapGrades(ts, gs, teacher, target)
  IN /\ IsTeaching(entry)
     /\ entry.d # NoDisp
     /\ ~would_create_btb(ts, teacher, target)
     /\ grades # {}
     /\ ~GradeConflict(gs, grades, issue)
     /\ ~SubjectDayConflict(gs, grades, entry.s, issue)

ValidSwaps(ts, gs, teacher) ==
  {c \in get_back_to_back_slots(ts, teacher) \X Slots : SwapAllowed(ts, gs, teacher, c[1], c[2])}

\* "Perform the swap": <<teacher_schedules, grade_schedules>> after it
PerformSwap(ts, gs, teacher, issue, target) ==
  LET entry == ts[teacher][target]
      grades == SwapGrades(ts, gs, teacher, target)
  IN <<[ts EXCEPT ![teacher] = [@ EXCEPT ![issue] = entry, ![target] = OpenCell]],
       [g \in DOMAIN gs |->
          IF g \in grades
          THEN [gs[g] EXCEPT ![target] = NoneGCell, ![issue] = [t |-> teacher, s |-> entry.s]]
          ELSE gs[g]]>>

\* One pass of the repair loop: the first teacher with a valid swap, its
\* first issue slot with a valid target, the first such target
RepairPass(ts, gs, full_time_teachers) ==
  LET able == {i \in DOMAIN full_time_teachers : ValidSwaps(ts, gs, full_time_teachers[i]) # {}}
  IN IF able = {} THEN <<ts, gs>>
     ELSE LET teacher == full_time_teachers[SetMin(able)]
              c == LexMin(ValidSwaps(ts, gs, teacher))
          IN PerformSwap(ts, gs, teacher, c[1], c[2])

RECURSIVE RepairLoop(_, _, _, _)
RepairLoop(ts, gs, full_time_teachers, passes) ==
  LET next == RepairPass(ts, gs, full_time_teachers)
  IN IF passes = 0 \/ next = <<ts, gs>> THEN <<ts, gs>>
     ELSE RepairLoop(next[1], next[2], full_time_teachers, passes - 1)

redistribute_open_blocks(ts, gs, full_time_teachers) ==
  RepairLoop(ts, gs, full_time_teachers, RepairPasses)

\* ------------------------------------------------------------------
\* rebuild_grade_schedules
\* ------------------------------------------------------------------
\* order: the iteration order of the teacher_schedules dict.  A later
\* teacher's entry overwrites an earlier one in the same grade cell.
rebuild_grade_schedules(ts, grades, order) ==
  [g \in Range(grades) |->
     [sl \in Slots |->
        LET src == {i \in DOMAIN order :
                      /\ IsTeaching(ts[order[i]][sl])
                      /\ g \in parse_grades_from_database(ts[order[i]][sl].d, Range(grades))}
        IN IF src = {} THEN NoneGCell
           ELSE [t |-> order[SetMax(src)], s |-> ts[order[SetMax(src)]][sl].s]]]

\* ------------------------------------------------------------------
\* Scoring
\* ------------------------------------------------------------------
IsOpenOrStudyHall(cell) == cell.s \in {"OPEN", "Study Hall"}

count_back_to_back(ts, teacher) ==
  Cardinality({sl \in Slots : /\ slot_to_block(sl) >= 1
                              /\ IsOpenOrStudyHall(TeacherCell(ts, teacher, sl - 1))
                              /\ IsOpenOrStudyHall(TeacherCell(ts, teacher, sl))})

count_same_day_open(ts, teacher) ==
  SumSeq([i \in 1 .. NumDays |->
            LET open_count == Cardinality({b \in BLOCKS :
                                IsOpenOrStudyHall(TeacherCell(ts, teacher, day_block_to_slot(i - 1, b)))})
            IN IF open_count > 1 THEN open_count - 1 ELSE 0])

TotalBtb(ts, names, rules) ==
  IF is_rule_enabled(rules, "no_btb_open")
  THEN SumSeq([i \in DOMAIN names |-> count_back_to_back(ts, names[i])])
  ELSE 0

TotalSpread(ts, names, rules) ==
  IF is_rule_enabled(rules, "spread_open")
  THEN SumSeq([i \in DOMAIN names |-> count_same_day_open(ts, names[i])])
  ELSE 0

\* sum(1 for sh in sh_assignments if sh.teacher is not None)
StudyHallsPlaced(sh_assignments) ==
  Cardinality({i \in DOMAIN sh_assignments : sh_assignments[i].teacher # ""})

Score(sh_placed, total_btb, total_spread) ==
  (StudyHallTarget - sh_placed) * 100 + total_btb + total_spread

\* ------------------------------------------------------------------
\* generate_schedules: pre-flight validation
\* ------------------------------------------------------------------
\* A pre-flight without Check 0
IncompleteClassesNone(class_objs) == {}

\* Check 0: the classes (by index) missing a teacher, a grade or a subject
IncompleteClasses(class_objs) ==
  {i \in DOMAIN class_objs : \/ class_objs[i].teacher = ""
                             \/ class_objs[i].grades = {}
                             \/ class_objs[i].subject = ""}

\* Check 1: teachers with more than 25 sessions
OverloadedTeachers(class_objs) ==
  {t \in {class_objs[i].teacher : i \in DOMAIN class_objs} :
     teacher_session_count(class_objs, t) > MaxLoad}

\* seen_grade_subject: class i is counted for a grade unless an earlier
\* regular class has the same (grade, subject) key
CountedForGrade(class_objs, i, grade) ==
  /\ ~class_objs[i].is_elective
  /\ grade \in class_objs[i].grades
  /\ ~\E j \in 1 .. (i - 1) : /\ ~class_objs[j].is_elective
                              /\ grade \in class_objs[j].grades
                              /\ class_objs[j].subject = class_objs[i].subject

grade_session_count(class_objs, grade) ==
  SumSeq([i \in DOMAIN class_objs |->
            IF CountedForGrade(class_objs, i, grade) THEN ClassCount(class_objs[i]) ELSE 0])

\* Check 2: grades with more than 25 sessions
OverloadedGrades(class_objs) ==
  {g \in UNION {class_objs[i].grades : i \in DOMAIN class_objs} :
     grade_session_count(class_objs, g) > MaxLoad}

\* Fixed occurrences keyed by slot alone, whoever the teacher is
FixedKeysBySlot(class_objs) ==
  LET RECURSIVE Keys(_)
      Keys(i) ==
        IF i > Len(class_objs) THEN <<>>
        ELSE LET ok == SelectSeq(class_objs[i].fixed_slots, ValidFixed)
             IN [k \in DOMAIN ok |-> <<"", day_block_to_slot(ok[k][1], ok[k][2])>>]
                \o Keys(i + 1)
  IN Keys(1)

\* The (teacher, slot) keys of all fixed occurrences, in class order
FixedKeys(class_objs) ==
  LET RECURSIVE Keys(_)
      Keys(i) ==
        IF i > Len(class_objs) THEN <<>>
        ELSE LET ok == SelectSeq(class_objs[i].fixed_slots, ValidFixed)
             IN [k \in DOMAIN ok |-> <<class_objs[i].teacher, day_block_to_slot(ok[k][1], ok[k][2])>>]
                \o Keys(i + 1)
  IN Keys(1)

\* Check 3: a (teacher, slot) key that was already in teacher_fixed_slots
FixedConflicts(class_objs) ==
  LET keys == FixedKeys(class_objs)
  IN {keys[k] : k \in {n \in DOMAIN keys : \E m \in 1 .. (n - 1) : keys[m] = keys[n]}}

NoDiagnostics ==
  [incompleteClasses |-> {}, teacherOverload |-> {}, gradeOverload |-> {},
   fixedSlotConflicts |-> {}, preflightErrors |-> 0]

\* One message per incomplete class, overloaded teacher, overloaded grade and
\* fixed occurrence that repeats a (teacher, slot) key
PreflightDiagnostics(class_objs) ==
  LET keys == FixedKeys(class_objs)
  IN [incompleteClasses |-> IncompleteClasses(class_objs),
      teacherOverload |-> OverloadedTeachers(class_objs),
      gradeOverload |-> OverloadedGrades(class_objs),
      fixedSlotConflicts |-> FixedConflicts(class_objs),
      preflightErrors |->
        Cardinality(IncompleteClasses(class_objs))
        + Cardinality(OverloadedTeachers(class_objs))
        + Cardinality(OverloadedGrades(class_objs))
        + Cardinality({n \in DOMAIN keys : \E m \in 1 .. (n - 1) : keys[m] = keys[n]})]

\* ------------------------------------------------------------------
\* generate_schedules: post-processing of one raw assignment
\* ------------------------------------------------------------------
\* An enumeration of a finite set of teacher names in every possible order
Orders(S) ==
  {f \in [1 .. Cardinality(S) -> S] : \A i, j \in 1 .. Cardinality(S) : i # j => f[i] # f[j]}

\* "Merge locked teacher schedules": each locked teacher's grid is the supplied
\* schedule, and its entries other than OPEN are written to the grade grids,
\* a later locked teacher over an earlier one
MergeLocked(ts, gs, locked_teachers, active_grades_set) ==
  <<[t \in DOMAIN ts \cup LockedNames(locked_teachers) |->
       IF t \in LockedNames(locked_teachers)
       THEN locked_teachers[SetMax({i \in DOMAIN locked_teachers : locked_teachers[i].name = t})].schedule
       ELSE ts[t]],
    [g \in DOMAIN gs |->
       [sl \in Slots |->
          LET src == {i \in DOMAIN locked_teachers :
                        /\ locked_teachers[i].schedule[sl].s \notin {"None", "OPEN"}
                        /\ g \in parse_grades_from_database(locked_teachers[i].schedule[sl].d,
                                                             active_grades_set)}
          IN IF src = {} THEN gs[g][sl]
             ELSE [t |-> locked_teachers[SetMax(src)].name,
                   s |-> locked_teachers[SetMax(src)].schedule[sl].s]]]>>

\* The study-hall supervisors of the call: the eligible teachers that are not locked
EligibleUnlocked(inp) ==
  LET unlocked(t) == t \notin LockedNames(inp.locked_teachers)
  IN SelectSeq(get_study_hall_eligible(inp.teachers, inp.rules), unlocked)

\* The repair looks at every full-time teacher, locked or not
AllFullTime(inp) == full_time_names(inp.teachers)

unlocked_full_time(inp) ==
  LET unlocked(t) == t \notin LockedNames(inp.locked_teachers)
  IN SelectSeq(full_time_names(inp.teachers), unlocked)

\* The names of the locked teachers in dict order
LockedOrder(locked_teachers) == [i \in DOMAIN locked_teachers |-> locked_teachers[i].name]

\* The candidate appended for one solution.  order is the iteration order of
\* the teacher_schedules dict, which build_schedules fills from a set; the
\* locked teachers come after it.
PostProcess(assignment, sessions, inp, seed, order) ==
  LET built0 == build_schedules(assignment, sessions, inp.grades)
      built == MergeLocked(built0[1], built0[2], inp.locked_teachers, Range(inp.grades))
      sh == IF is_rule_enabled(inp.rules, "study_hall_distribution")
            THEN add_study_halls(built[1], built[2], EligibleUnlocked(inp),
                                 ~inp.allow_study_hall_reassignment, inp.rules, inp.grades)
            ELSE [ts |-> built[1], gs |-> built[2], assignments |-> <<>>]
      sh_placed == StudyHallsPlaced(sh.assignments)
      filled == fill_open_blocks(sh.ts)
      repaired == IF is_rule_enabled(inp.rules, "no_btb_open")
                  THEN redistribute_open_blocks(filled, sh.gs, unlocked_full_time(inp))
                  ELSE <<filled, sh.gs>>
      ts == repaired[1]
      total_btb == TotalBtb(ts, full_time_names(inp.teachers), inp.rules)
      total_spread == TotalSpread(ts, full_time_names(inp.teachers), inp.rules)
  IN [seed |-> seed,
      score |-> Score(sh_placed, total_btb, total_spread),
      btb |-> total_btb,
      spread |-> total_spread,
      sh_placed |-> sh_placed,
      teacher_schedules |-> ts,
      grade_schedules |-> rebuild_grade_schedules(ts, inp.grades,
                                                  order \o LockedOrder(inp.locked_teachers)),
      sh_assignments |-> sh.assignments]

\* The grids one raw assignment has when redistribute_open_blocks is called,
\* with what add_study_halls was given and what it returned
BeforeRepair(assignment, sessions, inp) ==
  LET built0 == build_schedules(assignment, sessions, inp.grades)
      built == MergeLocked(built0[1], built0[2], inp.locked_teachers, Range(inp.grades))
      sh == IF is_rule_enabled(inp.rules, "study_hall_distribution")
            THEN add_study_halls(built[1], built[2], EligibleUnlocked(inp),
                                 ~inp.allow_study_hall_reassignment, inp.rules, inp.grades)
            ELSE [ts |-> built[1], gs |-> built[2], assignments |-> <<>>]
  IN [built_ts |-> built[1], built_gs |-> built[2],
      ts |-> fill_open_blocks(sh.ts), gs |-> sh.gs, assignments |-> sh.assignments]

RECURSIVE RepairSwaps(_, _, _, _)
\* The swaps the repair loop performs, in order: the teacher, the issue slot
\* filled, the slot the class came from, and both grids before and after
RepairSwaps(ts, gs, full_time_teachers, passes) ==
  LET able == {i \in DOMAIN full_time_teachers : ValidSwaps(ts, gs, full_time_teachers[i]) # {}}
  IN IF passes = 0 \/ able = {} THEN <<>>
     ELSE LET teacher == full_time_teachers[SetMin(able)]
              c == LexMin(ValidSwaps(ts, gs, teacher))
              next == PerformSwap(ts, gs, teacher, c[1], c[2])
          IN <<[teacher |-> teacher, issue |-> c[1], target |-> c[2],
                ts |-> ts, gs |-> gs, ts_after |-> next[1], gs_after |-> next[2]]>>
             \o RepairSwaps(next[1], next[2], full_time_teachers, passes - 1)

\* ------------------------------------------------------------------
\* generate_schedules: ranking
\* ------------------------------------------------------------------
RECURSIVE InsertByScore(_, _)
\* list.sort(key=score) is stable
InsertByScore(sorted, c) ==
  IF sorted = <<>> THEN <<c>>
  ELSE IF c.score < Head(sorted).score THEN <<c>> \o sorted
  ELSE <<Head(sorted)>> \o InsertByScore(Tail(sorted), c)

\* The pool left in its order
PoolOrder(done, rest) == done \o rest

RECURSIVE SortByScore(_, _)
SortByScore(done, rest) ==
  IF rest = <<>> THEN done
  ELSE SortByScore(InsertByScore(done, Head(rest)), Tail(rest))

\* The fingerprint: the sorted (teacher, day, block, cell) tuples.  Its hash
\* is taken to be free of collisions.
Fingerprint(c) ==
  {<<t, sl, c.teacher_schedules[t][sl]>> : t \in DOMAIN c.teacher_schedules, sl \in Slots}

\* A ranking that keeps every candidate up to the cap, duplicates included
DedupKeepAll(cands, seen_fingerprints, unique) ==
  unique \o SubSeq(cands, 1, IF Len(cands) < MaxUnique - Len(unique)
                             THEN Len(cands) ELSE MaxUnique - Len(unique))

RECURSIVE Dedup(_, _, _)
\* Keep the first candidate of each fingerprint, stop at max_solutions
Dedup(cands, seen_fingerprints, unique) ==
  IF cands = <<>> \/ Len(unique) >= MaxUnique THEN unique
  ELSE IF Fingerprint(Head(cands)) \in seen_fingerprints
       THEN Dedup(Tail(cands), seen_fingerprints, unique)
       ELSE Dedup(Tail(cands), seen_fingerprints \cup {Fingerprint(Head(cands))},
                  Append(unique, Head(cands)))

UniqueCandidates(cands) == Dedup(SortByScore(<<>>, cands), {}, <<>>)

\* The slice taken one position too far
SolutionsToUseAfterFirst(unique, skip_top_solutions, num_options) ==
  LET lo == skip_top_solutions + 2
      hi == IF lo + num_options - 1 > Len(unique) THEN Len(unique) ELSE lo + num_options - 1
  IN IF lo > hi THEN <<>> ELSE SubSeq(unique, lo, hi)

\* unique[skip : skip + num_options], or unique[:num_options]
SolutionsToUse(unique, skip_top_solutions, num_options) ==
  LET lo == IF skip_top_solutions > 0 THEN skip_top_solutions + 1 ELSE 1
      hi == IF lo + num_options - 1 > Len(unique) THEN Len(unique) ELSE lo + num_options - 1
  IN IF lo > hi THEN <<>> ELSE SubSeq(unique, lo, hi)

MakeOptions(unique, skip_top_solutions, num_options) ==
  LET use == SolutionsToUse(unique, skip_top_solutions, num_options)
  IN [i \in DOMAIN use |->
        [optionNumber |-> i,
         seed |-> use[i].seed,
         backToBackIssues |-> use[i].btb,
         studyHallsPlaced |-> use[i].sh_placed,
         teacherSchedules |-> use[i].teacher_schedules,
         gradeSchedules |-> use[i].grade_schedules,
         studyHallAssignments |-> use[i].sh_assignments]]

MakeAllSolutions(unique) ==
  [i \in DOMAIN unique |->
     [index |-> i - 1,
      score |-> unique[i].score,
      backToBackIssues |-> unique[i].btb,
      studyHallsPlaced |-> unique[i].sh_placed,
      teacherSchedules |-> unique[i].teacher_schedules,
      gradeSchedules |-> unique[i].grade_schedules,
      studyHallAssignments |-> unique[i].sh_assignments]]

\* ------------------------------------------------------------------
\* Inputs of generate_schedules
\* ------------------------------------------------------------------
\* Bounds of the model
MaxAttempts == 2
SolveCap == 2

Teacher(name, status, flag) ==
  [name |-> name, status |-> status, can_supervise_study_hall |-> flag]

Cls(teacher, grades, subject, n, elective, days, blocks, fixed) ==
  [teacher |-> teacher, grades |-> grades, subject |-> subject, daysPerWeek |-> n,
   isElective |-> elective, availableDays |-> days, availableBlocks |-> blocks,
   fixedSlots |-> fixed]

DefaultConfig == [grades |-> <<>>, allow_full_time |-> TRUE, allow_part_time |-> FALSE]

Rule(key, enabled) == [rule_key |-> key, enabled |-> enabled, config |-> DefaultConfig]

StudyHallGradesRule(grades) ==
  [rule_key |-> "study_hall_grades", enabled |-> TRUE,
   config |-> [grades |-> grades, allow_full_time |-> TRUE, allow_part_time |-> FALSE]]

BaseRules == <<StudyHallGradesRule(<<1, 2>>)>>

RuleLists ==
  {BaseRules,
   BaseRules \o <<Rule("no_duplicate_subjects", FALSE)>>,
   BaseRules \o <<Rule("study_hall_distribution", FALSE)>>,
   BaseRules \o <<Rule("no_btb_open", FALSE)>>}

FullTimeTeachers == <<Teacher("A", "full-time", "None"), Teacher("B", "full-time", "None")>>

MixedTeachers == <<Teacher("A", "full-time", "None"), Teacher("B", "part-time", "None")>>

TeacherLists == {FullTimeTeachers, MixedTeachers}

\* Teacher A with canSuperviseStudyHall true, teacher B with false
FlaggedTeachers == <<Teacher("A", "full-time", "True"), Teacher("B", "full-time", "False")>>

DatabaseGrades == <<1, 2, 3>>

\* Two independent classes, each with a choice of slots
BasicClasses ==
  <<Cls("A", {1}, "Math", 1, FALSE, {0}, {0, 1}, <<>>),
    Cls("B", {2}, "Sci", 1, FALSE, {0}, {0}, <<>>)>>

\* Two adjacent fixed classes of one teacher: the repair can move the first
AdjacentClasses ==
  <<Cls("A", {1}, "Math", 1, FALSE, {}, {}, <<<<0, 0>>>>),
    Cls("A", {1}, "Sci", 1, FALSE, {}, {}, <<<<0, 1>>>>)>>

\* A class taught twice a week with two slots on each of two days
TwiceAWeek ==
  <<Cls("A", {1}, "Math", 2, FALSE, {0, 1}, {0, 1}, <<>>)>>

\* An elective twice a week on one day, co-taught by two teachers, and a
\* regular class of the same grade
CoTaughtElective ==
  <<Cls("A", {1}, "Art", 2, TRUE, {0}, {0, 1}, <<>>),
    Cls("B", {1}, "Art", 2, TRUE, {0}, {0, 1}, <<>>),
    Cls("A", {1, 2}, "Math", 1, FALSE, {0}, {0, 1, 2}, <<>>)>>

\* A class for grades 1 and 3, and a class for grade 2
SplitGrades ==
  <<Cls("A", {1, 3}, "Math", 1, FALSE, {0}, {0}, <<>>),
    Cls("B", {2}, "Sci", 1, FALSE, {0}, {0, 1}, <<>>)>>

\* One teacher with two classes fixed to the same slot
FixedClashOneTeacher ==
  <<Cls("A", {1}, "Math", 1, FALSE, {}, {}, <<<<0, 0>>>>),
    Cls("A", {2}, "Sci", 1, FALSE, {}, {}, <<<<0, 0>>>>)>>

\* Two teachers each with a class fixed to (Mon, block 1), for two grades
FixedSameSlotTwoTeachers ==
  <<Cls("A", {1}, "Math", 1, FALSE, {}, {}, <<<<0, 0>>>>),
    Cls("B", {2}, "Sci", 1, FALSE, {}, {}, <<<<0, 0>>>>)>>

\* Two teachers each with a class of one grade fixed to (Mon, block 1)
FixedSameSlotOneGrade ==
  <<Cls("A", {1}, "Math", 1, FALSE, {}, {}, <<<<0, 0>>>>),
    Cls("B", {1}, "Sci", 1, FALSE, {}, {}, <<<<0, 0>>>>)>>

TeacherOverload ==
  <<Cls("A", {1}, "Math", 26, FALSE, {}, {}, <<>>)>>

\* 26 regular sessions of grade 1, 13 per teacher
GradeOverload ==
  <<Cls("A", {1}, "Math", 13, FALSE, {}, {}, <<>>),
    Cls("B", {1}, "Sci", 13, FALSE, {}, {}, <<>>)>>

\* 26 regular sessions of grade 1; one teacher has two Math classes for it
GradeOverloadTwoRows ==
  <<Cls("A", {1}, "Math", 13, FALSE, {0}, {0, 1}, <<>>),
    Cls("A", {1}, "Math", 12, FALSE, {0}, {0, 1}, <<>>),
    Cls("B", {1}, "Sci", 1, FALSE, {0}, {0, 1}, <<>>)>>

\* A fixed elective of grade 1 pins the only slot a regular class of grade 1 has
BlockedByElective ==
  <<Cls("B", {1}, "Art", 1, TRUE, {}, {}, <<<<0, 0>>>>),
    Cls("A", {1}, "Math", 1, FALSE, {0}, {0}, <<>>)>>

\* An elective and a regular class of grade 1, of two teachers, with the same
\* two slots to choose from
ElectiveBesideRegular ==
  <<Cls("B", {1}, "Art", 1, TRUE, {0}, {0, 1}, <<>>),
    Cls("A", {1}, "Math", 1, FALSE, {0}, {0, 1}, <<>>)>>

\* An elective of grades 1 and 2 pinned at (Tue, block 3), and a regular
\* class of grade 1 available in every slot
PinnedElective ==
  <<Cls("B", {1, 2}, "Art", 1, TRUE, {}, {}, <<<<1, 2>>>>),
    Cls("A", {1}, "Math", 1, FALSE, {}, {}, <<>>)>>

\* One teacher, one class five times a week, available in every slot
WeekOfMath ==
  <<Cls("A", {1}, "Math", 5, FALSE, {}, {}, <<>>)>>

\* Two teachers, each with a different subject three times a week for grade 1
TwoSubjectsThrice ==
  <<Cls("A", {1}, "Math", 3, FALSE, {}, {}, <<>>),
    Cls("B", {1}, "Sci", 3, FALSE, {}, {}, <<>>)>>

NoTeacherClass == <<Cls("", {1}, "Math", 1, FALSE, {0}, {0}, <<>>)>>

\* Grade 9 is not in the database: the class is left without a grade
NoGradeClass == <<Cls("A", {9}, "Math", 1, FALSE, {0}, {0}, <<>>)>>

NoSubjectClass == <<Cls("A", {1}, "", 1, FALSE, {0}, {0}, <<>>)>>

MakeInput(teachers, classes, rules, grades, num_attempts) ==
  [teachers |-> teachers, classes |-> classes, rules |-> rules, grades |-> grades,
   num_options |-> 3, num_attempts |-> num_attempts, max_time_seconds |-> 280, start_seed |-> 0,
   skip_top_solutions |-> 0, allow_study_hall_reassignment |-> FALSE, locked_teachers |-> <<>>]

\* Class lists solved in up to MaxAttempts attempts (the time limit may end
\* the loop after any attempt)
SmallClassLists ==
  {BasicClasses, AdjacentClasses, CoTaughtElective, SplitGrades, FixedClashOneTeacher,
   FixedSameSlotTwoTeachers, FixedSameSlotOneGrade, TeacherOverload, GradeOverload,
   GradeOverloadTwoRows, BlockedByElective, ElectiveBesideRegular, NoTeacherClass,
   NoGradeClass, NoSubjectClass}

\* Class lists with many solutions, solved in one attempt
LargeClassLists == {TwiceAWeek, WeekOfMath, TwoSubjectsThrice, PinnedElective}

\* Calls that fail the validation of required inputs
DegenerateInputs ==
  {MakeInput(<<>>, cl, BaseRules, DatabaseGrades, 1) : cl \in SmallClassLists \cup {<<>>}}
  \cup {MakeInput(tl, <<>>, BaseRules, DatabaseGrades, 1) : tl \in TeacherLists}
  \cup {MakeInput(tl, cl, <<>>, DatabaseGrades, 1) : tl \in TeacherLists, cl \in SmallClassLists}
  \cup {MakeInput(tl, cl, BaseRules, <<>>, 1) : tl \in TeacherLists, cl \in SmallClassLists}

Inputs ==
  {MakeInput(tl, cl, rl, DatabaseGrades, MaxAttempts) :
     tl \in TeacherLists, cl \in SmallClassLists, rl \in RuleLists}
  \cup {MakeInput(FullTimeTeachers, cl, rl, DatabaseGrades, 1) :
          cl \in LargeClassLists,
          rl \in {BaseRules, BaseRules \o <<Rule("no_duplicate_subjects", FALSE)>>}}
  \cup {MakeInput(FlaggedTeachers, cl, BaseRules, DatabaseGrades, MaxAttempts) :
          cl \in {BasicClasses, AdjacentClasses}}
  \cup DegenerateInputs

\* ------------------------------------------------------------------
\* The state of one call of generate_schedules
\* ------------------------------------------------------------------
VARIABLES
  inp,              \* the arguments of the call
  request,          \* the body of the POST /solve request behind the call, if any
  pc,               \* "start", "preflight", "search", "post", "rank", "done"
  sessions,         \* the list build_sessions returned
  teacher_order,    \* the iteration order of set(s.teacher for s in sessions)
  attempt,          \* the loop variable of the attempt loop
  solutions,        \* the list the current solve call returned
  sol_idx,          \* the next solution to post-process (1-based)
  candidates,       \* the candidate pool
  status,           \* result['status']; "raised" when an exception leaves the call
  options,          \* result['options']
  all_solutions,    \* result['allSolutions']
  seeds_completed,  \* result['seeds_completed']
  infeasible_count, \* result['infeasible_count']
  diagnostics,      \* result['diagnostics'], the pre-flight part
  solver_calls,     \* the number of calls of solve_with_cpsat so far
  returned,         \* what each solve call so far returned, in call order
  clock,            \* time.time() - start_time, in whole seconds
  elapsed,          \* the local 'elapsed', as read at the head of the loop
  attempt_time      \* the local 'attempt_time', a fraction <<p, q>> of seconds

vars == <<inp, request, returned, clock, elapsed, attempt_time, pc, sessions, teacher_order,
          attempt, solutions, sol_idx, candidates, status, options, all_solutions,
          seeds_completed, infeasible_count, diagnostics, solver_calls>>

class_objs == ClassObjs(inp.classes, Range(inp.grades))

\* The classes of the teachers that are not locked
classes_to_schedule ==
  LET unlocked(c) == c.teacher \notin LockedNames(inp.locked_teachers)
  IN SelectSeq(class_objs, unlocked)

\* A call made directly, not through the endpoint
NoRequest ==
  [teachers |-> <<>>, classes |-> <<>>, rules |-> <<>>, numOptions |-> 0, numAttempts |-> 0,
   maxTimeSeconds |-> 0]

\* The locals at the entry of generate_schedules
StartState ==
  /\ pc = "start"
  /\ sessions = <<>>
  /\ teacher_order = <<>>
  /\ attempt = 0
  /\ solutions = <<>>
  /\ sol_idx = 0
  /\ candidates = <<>>
  /\ status = "running"
  /\ options = <<>>
  /\ all_solutions = <<>>
  /\ seeds_completed = 0
  /\ infeasible_count = 0
  /\ diagnostics = NoDiagnostics
  /\ solver_calls = 0
  /\ returned = <<>>
  /\ clock = 0
  /\ elapsed = 0
  /\ attempt_time = <<0, 1>>

\* The state at the entry of generate_schedules for a call drawn from calls
InitFrom(calls) ==
  /\ inp \in calls
  /\ request = NoRequest
  /\ StartState

Init == InitFrom(Inputs)

\* The four early returns on missing teachers, classes, rules or grades
MissingInput ==
  inp.teachers = <<>> \/ inp.classes = <<>> \/ inp.rules = <<>> \/ inp.grades = <<>>

Validate ==
  /\ pc = "start"
  /\ IF MissingInput
     THEN pc' = "done" /\ status' = "error" /\ sessions' = sessions
          /\ teacher_order' = teacher_order
     ELSE /\ pc' = "preflight"
          /\ status' = status
          /\ sessions' = build_sessions(classes_to_schedule, inp.locked_teachers, inp.grades)
          /\ teacher_order' \in Orders(SessionTeachers(sessions'))
  /\ UNCHANGED <<inp, request, returned, clock, elapsed, attempt_time, attempt, solutions, sol_idx,
                 candidates, options, all_solutions, seeds_completed, infeasible_count, diagnostics,
                 solver_calls>>

Preflight ==
  /\ pc = "preflight"
  /\ diagnostics' = PreflightDiagnostics(class_objs)
  /\ IF diagnostics'.preflightErrors > 0
     THEN pc' = "done" /\ status' = "infeasible"
     ELSE pc' = "search" /\ status' = status
  /\ UNCHANGED <<inp, request, returned, clock, elapsed, attempt_time, sessions, teacher_order,
                 attempt, solutions, sol_idx, candidates, options, all_solutions, seeds_completed,
                 infeasible_count, solver_calls>>

RECURSIVE DistinctSeqs(_, _)
\* The lists of at most n distinct elements of S
DistinctSeqs(S, n) ==
  IF n = 0 THEN {<<>>}
  ELSE LET shorter == DistinctSeqs(S, n - 1)
       IN shorter \cup {Append(p[1], p[2]) :
                          p \in {q \in shorter \X S : Len(q[1]) = n - 1 /\ q[2] \notin Range(q[1])}}

\* What one solve call may return: CP-SAT enumerates distinct solutions and
\* stops at max_solutions or at the time limit
SolveResults(sess, rules, active_grades) ==
  DistinctSeqs(SolverPool(sess, rules, active_grades),
               IF SolveCap < MaxSolutionsPerSeed THEN SolveCap ELSE MaxSolutionsPerSeed)

\* solve_with_cpsat raises KeyError for a session without a variable
SolveRaises ==
  /\ pc = "search"
  /\ attempt < inp.num_attempts
  /\ HasEmptyDomain(sessions)
  /\ pc' = "done"
  /\ status' = "raised"
  /\ solver_calls' = solver_calls + 1
  /\ UNCHANGED <<inp, request, returned, clock, elapsed, attempt_time, sessions, teacher_order,
                 attempt, solutions, sol_idx, candidates, options, all_solutions, seeds_completed,
                 infeasible_count, diagnostics>>

\* The loop is at the head of an attempt and the solve call will not raise
CanAttempt ==
  /\ pc = "search"
  /\ attempt < inp.num_attempts
  /\ ~HasEmptyDomain(sessions)

\* The bookkeeping that gives up at the first solve call that returns nothing
AttemptStopsOnEmpty(sols) ==
  /\ solutions' = sols
  /\ IF sols = <<>>
     THEN /\ infeasible_count' = infeasible_count + 1
          /\ attempt' = attempt
          /\ pc' = "rank"
          /\ sol_idx' = 0
     ELSE /\ infeasible_count' = infeasible_count
          /\ attempt' = attempt
          /\ pc' = "post"
          /\ sol_idx' = 1
  /\ seeds_completed' = attempt + 1
  /\ solver_calls' = solver_calls + 1
  /\ returned' = Append(returned, sols)
  /\ UNCHANGED <<inp, request, sessions, teacher_order, candidates, status, options, all_solutions,
                 diagnostics>>

\* The bookkeeping of an attempt whose solve call returned sols
AttemptWith(sols) ==
  /\ solutions' = sols
  /\ IF sols = <<>>
     THEN /\ infeasible_count' = infeasible_count + 1
          /\ attempt' = attempt + 1
          /\ pc' = "search"
          /\ sol_idx' = 0
     ELSE /\ infeasible_count' = infeasible_count
          /\ attempt' = attempt
          /\ pc' = "post"
          /\ sol_idx' = 1
  /\ seeds_completed' = attempt + 1
  /\ solver_calls' = solver_calls + 1
  /\ returned' = Append(returned, sols)
  /\ UNCHANGED <<inp, request, sessions, teacher_order, candidates, status, options, all_solutions,
                 diagnostics>>

\* One attempt: the solve call, which may return any list of feasible
\* assignments, and the bookkeeping after it
Solve ==
  /\ CanAttempt
  /\ \E sols \in SolveResults(sessions, inp.rules, inp.grades) : AttemptWith(sols)
  /\ UNCHANGED <<clock, elapsed, attempt_time>>

\* "Process each solution from this seed": one iteration of the inner loop
Process ==
  /\ pc = "post"
  /\ candidates' = Append(candidates,
                          PostProcess(solutions[sol_idx], sessions, inp,
                                      inp.start_seed + attempt, teacher_order))
  /\ IF sol_idx = Len(solutions)
     THEN pc' = "search" /\ attempt' = attempt + 1 /\ sol_idx' = 0 /\ solutions' = <<>>
     ELSE pc' = "post" /\ attempt' = attempt /\ sol_idx' = sol_idx + 1 /\ solutions' = solutions
  /\ UNCHANGED <<inp, request, returned, clock, elapsed, attempt_time, sessions, teacher_order,
                 status, options, all_solutions, seeds_completed, infeasible_count, diagnostics,
                 solver_calls>>

\* elapsed > max_time_seconds - 5 at the head of the loop
TimeUp ==
  /\ pc = "search"
  /\ attempt < inp.num_attempts
  /\ pc' = "rank"
  /\ UNCHANGED <<inp, request, returned, clock, elapsed, attempt_time, sessions, teacher_order,
                 attempt, solutions, sol_idx, candidates, status, options, all_solutions,
                 seeds_completed, infeasible_count, diagnostics, solver_calls>>

LoopEnd ==
  /\ pc = "search"
  /\ attempt = inp.num_attempts
  /\ pc' = "rank"
  /\ UNCHANGED <<inp, request, returned, clock, elapsed, attempt_time, sessions, teacher_order,
                 attempt, solutions, sol_idx, candidates, status, options, all_solutions,
                 seeds_completed, infeasible_count, diagnostics, solver_calls>>

\* After the loop: no candidate is 'infeasible', else sort, deduplicate, select
Rank ==
  /\ pc = "rank"
  /\ pc' = "done"
  /\ IF candidates = <<>>
     THEN status' = "infeasible" /\ options' = <<>> /\ all_solutions' = <<>>
     ELSE LET unique == UniqueCandidates(candidates)
          IN /\ status' = "success"
             /\ options' = MakeOptions(unique, inp.skip_top_solutions, inp.num_options)
             /\ all_solutions' = MakeAllSolutions(unique)
  /\ UNCHANGED <<inp, request, returned, clock, elapsed, attempt_time, sessions, teacher_order,
                 attempt, solutions, sol_idx, candidates, seeds_completed, infeasible_count,
                 diagnostics, solver_calls>>

Next ==
  \/ Validate
  \/ Preflight
  \/ SolveRaises
  \/ Solve
  \/ Process
  \/ TimeUp
  \/ LoopEnd
  \/ Rank

Spec == Init /\ [][Next]_vars

\* An attempt whose solve call ends within its time limit: CP-SAT is complete,
\* so it returns an assignment whenever one exists
SolveInTime ==
  /\ Solve
  /\ SolverPool(sessions, inp.rules, inp.grades) # {} => solutions' # <<>>

\* Calls whose time budget is never used up and whose solve calls end in time
NextInTime ==
  \/ Validate
  \/ Preflight
  \/ SolveRaises
  \/ SolveInTime
  \/ Process
  \/ LoopEnd
  \/ Rank

SpecInTime == Init /\ [][NextInTime]_vars

\* ------------------------------------------------------------------
\* Calls with many attempts, each solve call's answer fixed by its seed
\* ------------------------------------------------------------------
ManyAttempts == 7

\* The seeded answers repeat after Period assignments
Period == 32

\* Two independent classes, each once a week in any slot
TwoFreeClasses ==
  <<Cls("A", {1}, "Math", 1, FALSE, {}, {}, <<>>),
    Cls("B", {2}, "Sci", 1, FALSE, {}, {}, <<>>)>>

SeededInputs ==
  {[MakeInput(FullTimeTeachers, TwoFreeClasses, BaseRules, DatabaseGrades, ManyAttempts)
      EXCEPT !.start_seed = s] : s \in 0 .. 2}

RECURSIVE NthAssignment(_, _, _)
\* The n-th combination of domain values of sessions k, k+1, ..., the first
\* session's value changing fastest
NthAssignment(sess, k, n) ==
  IF k > Len(sess) THEN <<>>
  ELSE LET dom == SetToSeq(sess[k].valid_slots)
       IN <<dom[(n % Len(dom)) + 1]>> \o NthAssignment(sess, k + 1, n \div Len(dom))

\* One answer of a solve call that is a function of the seed alone: the
\* feasible ones among max_solutions consecutive combinations
SeededResults(sess, rules, active_grades, seed) ==
  LET all == [j \in 1 .. MaxSolutionsPerSeed |->
                NthAssignment(sess, 1, (seed * MaxSolutionsPerSeed + (j - 1)) % Period)]
      feasible(a) ==
        \A i, j \in DOMAIN sess :
          i < j => PairOk(sess, i, j, a[i], a[j],
                          is_rule_enabled(rules, "no_duplicate_subjects"),
                          Range(active_grades), CotaughtPairs(sess))
  IN SelectSeq(all, feasible)

SolveSeeded ==
  /\ CanAttempt
  /\ AttemptWith(SeededResults(sessions, inp.rules, inp.grades, inp.start_seed + attempt))
  /\ UNCHANGED <<clock, elapsed, attempt_time>>

NextSeeded ==
  \/ Validate
  \/ Preflight
  \/ SolveSeeded
  \/ Process
  \/ TimeUp
  \/ LoopEnd
  \/ Rank

SpecSeeded == InitFrom(SeededInputs) /\ [][NextSeeded]_vars

\* ------------------------------------------------------------------
\* Calls with the clock: what each attempt is given and when the loop stops.
\* (Spec leaves the clock alone and lets the time check go either way.)
\* ------------------------------------------------------------------
\* Fractions <<p, q>> with q > 0
RatLeq(a, b) == a[1] * b[2] <= b[1] * a[2]

RatEq(a, b) == a[1] * b[2] = b[1] * a[2]

RatMin(a, b) == IF RatLeq(a, b) THEN a ELSE b

\* time_per_attempt = min(10.0, max_time_seconds / num_attempts)
time_per_attempt == RatMin(<<10, 1>>, <<inp.max_time_seconds, inp.num_attempts>>)

\* The limit that ignores how much of the budget is left
AttemptTimeOfShare(elapsed_now) == time_per_attempt

\* remaining_time = max_time_seconds - elapsed - 5; min(time_per_attempt, remaining_time)
AttemptTime(elapsed_now) ==
  RatMin(time_per_attempt, <<inp.max_time_seconds - elapsed_now - 5, 1>>)

\* How long a solve call with the given limit may take, in whole seconds:
\* no time, a second, or its limit
SolveDurations(limit) == {d \in {0, 1, limit[1] \div limit[2]} : RatLeq(<<d, 1>>, limit)}

\* One class pinned to one slot: a single feasible assignment
OneFixedClass ==
  <<Cls("A", {1}, "Math", 1, FALSE, {}, {}, <<<<0, 0>>>>)>>

\* max_time_seconds of the timed calls
TimeBudgets == {4, 12, 16, 30}

TimedInputs ==
  {[MakeInput(FullTimeTeachers, OneFixedClass, BaseRules, DatabaseGrades, n)
      EXCEPT !.max_time_seconds = m] : n \in 1 .. MaxAttempts, m \in TimeBudgets}

\* elapsed > max_time_seconds - 5 at the head of the loop
TimeUpTimed ==
  /\ pc = "search"
  /\ attempt < inp.num_attempts
  /\ clock > inp.max_time_seconds - 5
  /\ elapsed' = clock
  /\ pc' = "rank"
  /\ UNCHANGED <<inp, request, returned, clock, attempt_time, sessions, teacher_order, attempt,
                 solutions, sol_idx, candidates, status, options, all_solutions, seeds_completed,
                 infeasible_count, diagnostics, solver_calls>>

\* One attempt with its time limit; the call takes some of it
SolveTimed ==
  /\ CanAttempt
  /\ ~(clock > inp.max_time_seconds - 5)
  /\ elapsed' = clock
  /\ attempt_time' = AttemptTime(clock)
  /\ \E d \in SolveDurations(attempt_time') : clock' = clock + d
  /\ \E sols \in SolveResults(sessions, inp.rules, inp.grades) : AttemptWith(sols)

NextTimed ==
  \/ Validate
  \/ Preflight
  \/ SolveTimed
  \/ Process
  \/ TimeUpTimed
  \/ LoopEnd
  \/ Rank

SpecTimed == InitFrom(TimedInputs) /\ [][NextTimed]_vars

\* ------------------------------------------------------------------
\* solve_with_cpsat called twice on the sessions of one call, with one seed
\* (build_sessions, then the solver, as the debug script calls them).  The
\* search is single-threaded and seeded: it finds the assignments in an order
\* fixed by the seed; the wall-clock limit may stop it after any of them.
\* ------------------------------------------------------------------
\* The rotation by the number of calls made so far: a generator that is not reseeded
ShuffleByCalls(seq, seed) ==
  IF seq = <<>> THEN <<>>
  ELSE [i \in 1 .. Len(seq) |-> seq[((i - 1 + seed + solver_calls) % Len(seq)) + 1]]

\* rng.shuffle: a permutation fixed by the seed and the list's length, here
\* the rotation by seed
ShuffleBySeed(seq, seed) ==
  IF seq = <<>> THEN <<>>
  ELSE [i \in 1 .. Len(seq) |-> seq[((i - 1 + seed) % Len(seq)) + 1]]

\* shuffled_sessions = fixed + shuffled non_fixed, as indices of the session list
VarOrder(sess, seed) ==
  SetToSeq({i \in DOMAIN sess : Cardinality(sess[i].valid_slots) = 1})
    \o ShuffleBySeed(SetToSeq({i \in DOMAIN sess : Cardinality(sess[i].valid_slots) > 1}), seed)

\* CHOOSE_FIRST with SELECT_MIN_VALUE (even seed) or SELECT_MAX_VALUE (odd):
\* a is found before b
FoundBefore(a, b, order, seed) ==
  \E k \in DOMAIN order :
    /\ \A q \in 1 .. (k - 1) : a[order[q]] = b[order[q]]
    /\ IF seed % 2 = 0 THEN a[order[k]] < b[order[k]] ELSE a[order[k]] > b[order[k]]

RECURSIVE InSearchOrder(_, _, _)
InSearchOrder(S, order, seed) ==
  IF S = {} THEN <<>>
  ELSE LET a == CHOOSE a \in S : \A b \in S \ {a} : FoundBefore(a, b, order, seed)
       IN <<a>> \o InSearchOrder(S \ {a}, order, seed)

\* What the collector holds when the search ends by itself: the first
\* max_solutions assignments found
SearchResults(sess, rules, active_grades, seed) ==
  LET found == InSearchOrder(FeasibleAssignments(sess, rules, active_grades),
                             VarOrder(sess, seed), seed)
  IN SubSeq(found, 1, IF Len(found) < MaxSolutionsPerSeed THEN Len(found)
                      ELSE MaxSolutionsPerSeed)

\* The seeds of the repeated calls
Seeds == 0 .. 3

TwiceInputs ==
  {[MakeInput(FullTimeTeachers, cl, BaseRules, DatabaseGrades, 1) EXCEPT !.start_seed = s] :
     cl \in {BasicClasses, TwiceAWeek, CoTaughtElective, SplitGrades, ElectiveBesideRegular},
     s \in Seeds}

\* One call of solve_with_cpsat(sessions, seed, ...): the search's results,
\* or the ones found before the time limit stopped it
SolveDirect ==
  /\ pc = "preflight"
  /\ ~HasEmptyDomain(sessions)
  /\ solver_calls < 2
  /\ \E k \in 0 .. Len(SearchResults(sessions, inp.rules, inp.grades, inp.start_seed)) :
       returned' = Append(returned,
                          SubSeq(SearchResults(sessions, inp.rules, inp.grades, inp.start_seed), 1, k))
  /\ solver_calls' = solver_calls + 1
  /\ UNCHANGED <<inp, request, clock, elapsed, attempt_time, pc, sessions, teacher_order, attempt,
                 solutions, sol_idx, candidates, status, options, all_solutions, seeds_completed,
                 infeasible_count, diagnostics>>

NextTwice ==
  \/ Validate
  \/ SolveDirect

SpecTwice == InitFrom(TwiceInputs) /\ [][NextTwice]_vars

\* ------------------------------------------------------------------
\* main.py: POST /solve
\* ------------------------------------------------------------------
\* The request bodies: teachers, classes, counts, time budget, and the rule
\* configuration the client sends
Requests ==
  {[teachers |-> tl, classes |-> cl, rules |-> rl, numOptions |-> 3, numAttempts |-> n,
    maxTimeSeconds |-> 280] :
     tl \in TeacherLists \cup {<<>>}, cl \in SmallClassLists \cup {<<>>}, rl \in RuleLists,
     n \in 1 .. MaxAttempts}

\* The call solve_schedule makes: teachers, classes, num_options, num_attempts
\* and max_time_seconds; rules and grades keep their default None.
\* SolveRequest declares no rules field, so the request's rules are dropped.
solve_schedule(req) ==
  [MakeInput(req.teachers, req.classes, <<>>, <<>>, req.numAttempts)
     EXCEPT !.num_options = req.numOptions, !.max_time_seconds = req.maxTimeSeconds]

\* The SolveResponse built from the result
SolveResponse ==
  [status |-> status, options |-> options, allSolutions |-> all_solutions,
   seedsCompleted |-> seeds_completed, infeasibleCount |-> infeasible_count]

InitEndpoint ==
  /\ request \in Requests
  /\ inp = solve_schedule(request)
  /\ StartState

\* Every call the endpoint makes ends in the validation of its arguments
NextEndpoint == Validate

SpecEndpoint == InitEndpoint /\ [][NextEndpoint]_vars

\* ------------------------------------------------------------------
\* Properties of the search and of its results
\* ------------------------------------------------------------------
SessionEntry(s) == [d |-> s.grade_display, s |-> s.subject]

SessionsOfTeacher(t) == {i \in DOMAIN sessions : sessions[i].teacher = t}

TeachingCells(ts, t) == {sl \in Slots : IsTeaching(ts[t][sl])}

\* C1: in every candidate, each teacher has as many teaching cells as sessions,
\* and each (display, subject) entry of the teacher fills as many cells as the
\* teacher has sessions with that entry: no two sessions share a cell and none
\* is lost, study-hall placement and back-to-back repair included.
C1_TeacherSessionsKeepDistinctCells ==
  \A k \in DOMAIN candidates :
    LET ts == candidates[k].teacher_schedules
    IN \A t \in SessionTeachers(sessions) :
         /\ Cardinality(TeachingCells(ts, t)) = Cardinality(SessionsOfTeacher(t))
         /\ \A i \in SessionsOfTeacher(t) :
              Cardinality({sl \in Slots : ts[t][sl] = SessionEntry(sessions[i])})
                = Cardinality({j \in SessionsOfTeacher(t) :
                                 SessionEntry(sessions[j]) = SessionEntry(sessions[i])})

\* A candidate with a study hall placed in which the repair moved teacher A's
\* Math class off its fixed slot, both classes of A still in the grid
C1_Witness ==
  /\ inp.classes = AdjacentClasses
  /\ \E k \in DOMAIN candidates :
       /\ candidates[k].sh_placed > 0
       /\ ~IsTeaching(candidates[k].teacher_schedules["A"][0])
       /\ Cardinality(TeachingCells(candidates[k].teacher_schedules, "A")) = 2

\* C2: in every assignment the solver returns, two sessions that cover a common
\* grade and are not both electives are in different slots.
C2_GradeSlotsExclusive ==
  \A k \in DOMAIN solutions : \A i, j \in DOMAIN sessions :
    (/\ i # j
     /\ sessions[i].grades \cap sessions[j].grades # {}
     /\ ~(sessions[i].is_elective /\ sessions[j].is_elective))
    => solutions[k][i] # solutions[k][j]

\* An assignment with two electives of one grade in one slot and a regular
\* class of that grade in another slot
C2_Witness ==
  \E k \in DOMAIN solutions : \E i, j, r \in DOMAIN sessions :
    /\ i # j
    /\ sessions[i].is_elective /\ sessions[j].is_elective /\ ~sessions[r].is_elective
    /\ sessions[i].grades \cap sessions[j].grades \cap sessions[r].grades # {}
    /\ solutions[k][i] = solutions[k][j]
    /\ solutions[k][r] # solutions[k][i]

\* C3 as stated: with no_duplicate_subjects enabled, in every assignment no two
\* sessions of one subject that cover a common grade are on the same day.
C3_NoSubjectTwiceADay ==
  is_rule_enabled(inp.rules, "no_duplicate_subjects") =>
    \A k \in DOMAIN solutions : \A i, j \in DOMAIN sessions :
      (/\ i # j
       /\ sessions[i].grades \cap sessions[j].grades # {}
       /\ sessions[i].subject = sessions[j].subject)
      => slot_to_day(solutions[k][i]) # slot_to_day(solutions[k][j])

\* C3 amended: with no_duplicate_subjects enabled, in every assignment no two
\* regular (non-elective) sessions of one subject that cover a common grade
\* are on the same day.
C3_NoRegularSubjectTwiceADay ==
  is_rule_enabled(inp.rules, "no_duplicate_subjects") =>
    \A k \in DOMAIN solutions : \A i, j \in DOMAIN sessions :
      (/\ i # j
       /\ sessions[i].grades \cap sessions[j].grades # {}
       /\ sessions[i].subject = sessions[j].subject
       /\ ~sessions[i].is_elective /\ ~sessions[j].is_elective)
      => slot_to_day(solutions[k][i]) # slot_to_day(solutions[k][j])

\* An assignment under the rule with two regular sessions of one subject and
\* grade whose domains share a day
C3_Witness ==
  /\ is_rule_enabled(inp.rules, "no_duplicate_subjects")
  /\ \E k \in DOMAIN solutions : \E i, j \in DOMAIN sessions :
       /\ i # j
       /\ sessions[i].grades \cap sessions[j].grades # {}
       /\ sessions[i].subject = sessions[j].subject
       /\ ~sessions[i].is_elective /\ ~sessions[j].is_elective
       /\ \E a \in sessions[i].valid_slots : \E b \in sessions[j].valid_slots :
            a # b /\ slot_to_day(a) = slot_to_day(b)
       /\ slot_to_day(solutions[k][i]) # slot_to_day(solutions[k][j])

\* The teachers of a (grade, subject) group all have the same number of sessions
EqualSessionCounts(grade, subject) ==
  \A t, u \in GroupTeachers(sessions, grade, subject) :
    Len(GroupSessions(sessions, grade, subject, t)) = Len(GroupSessions(sessions, grade, subject, u))

GradeSubjects ==
  UNION {sessions[i].grades \X {sessions[i].subject} : i \in DOMAIN sessions}

\* C4: in every assignment, for every (grade, subject) taught by two or more
\* teachers with equal session counts, the i-th sessions of any two of those
\* teachers are in the same slot.
C4_CoTaughtSessionsShareSlots ==
  \A k \in DOMAIN solutions : \A gs \in GradeSubjects :
    (Cardinality(GroupTeachers(sessions, gs[1], gs[2])) >= 2 /\ EqualSessionCounts(gs[1], gs[2]))
    => \A t, u \in GroupTeachers(sessions, gs[1], gs[2]) :
         \A i \in DOMAIN GroupSessions(sessions, gs[1], gs[2], t) :
           solutions[k][GroupSessions(sessions, gs[1], gs[2], t)[i]]
             = solutions[k][GroupSessions(sessions, gs[1], gs[2], u)[i]]

\* An assignment of a group co-taught by A and B twice a week, whose sessions
\* each have more than one slot to choose from
C4_Witness ==
  \E k \in DOMAIN solutions : \E gs \in GradeSubjects :
    /\ GroupTeachers(sessions, gs[1], gs[2]) = {"A", "B"}
    /\ Len(GroupSessions(sessions, gs[1], gs[2], "A")) = 2
    /\ Len(GroupSessions(sessions, gs[1], gs[2], "B")) = 2
    /\ \A i \in 1 .. 2 :
         /\ Cardinality(sessions[GroupSessions(sessions, gs[1], gs[2], "A")[i]].valid_slots) > 1
         /\ solutions[k][GroupSessions(sessions, gs[1], gs[2], "A")[i]]
              = solutions[k][GroupSessions(sessions, gs[1], gs[2], "B")[i]]

\* C5 as stated: in every candidate, a non-empty grade cell (teacher, subject)
\* has, in that teacher's grid at the same slot, a teaching entry of that
\* subject which is the entry of a session of that teacher covering the grade.
C5_GradeGridAgreesWithTeacherGrid ==
  \A k \in DOMAIN candidates :
    LET ts == candidates[k].teacher_schedules
        gs == candidates[k].grade_schedules
    IN \A g \in DOMAIN gs : \A sl \in Slots :
         gs[g][sl] # NoneGCell =>
           /\ gs[g][sl].t \in DOMAIN ts
           /\ IsTeaching(ts[gs[g][sl].t][sl])
           /\ ts[gs[g][sl].t][sl].s = gs[g][sl].s
           /\ \E i \in SessionsOfTeacher(gs[g][sl].t) :
                /\ SessionEntry(sessions[i]) = ts[gs[g][sl].t][sl]
                /\ g \in sessions[i].grades

\* C6: no two entries of allSolutions have the same teacher grids.
C6_AlternatesHaveDistinctGrids ==
  \A i, j \in DOMAIN all_solutions :
    i # j => all_solutions[i].teacherSchedules # all_solutions[j].teacherSchedules

\* A finished call whose pool held a duplicate grid and that returns two or
\* more alternates
C6_Witness ==
  /\ pc = "done"
  /\ Len(all_solutions) >= 2
  /\ \E a, b \in DOMAIN candidates :
       a # b /\ candidates[a].teacher_schedules = candidates[b].teacher_schedules

\* A class without a teacher, without a grade or without a subject
ClassLacksField ==
  \E i \in DOMAIN class_objs :
    class_objs[i].teacher = "" \/ class_objs[i].grades = {} \/ class_objs[i].subject = ""

\* A teacher whose classes add up to more than 25 sessions a week
TeacherOver25 ==
  \E t \in {class_objs[i].teacher : i \in DOMAIN class_objs} :
    SumSeq([i \in DOMAIN class_objs |->
              IF class_objs[i].teacher = t THEN ClassCount(class_objs[i]) ELSE 0]) > 25

\* The fixed occurrences <<class, position>> of the call
FixedOccurrences ==
  UNION {{i} \X DOMAIN class_objs[i].fixed_slots : i \in DOMAIN class_objs}

FixedSlotOf(o) == class_objs[o[1]].fixed_slots[o[2]]

\* The <<teacher, slot>> pairs in which one teacher has two fixed occurrences
TeacherFixedTwice ==
  {<<class_objs[o[1]].teacher, day_block_to_slot(FixedSlotOf(o)[1], FixedSlotOf(o)[2])>> :
     o \in {a \in FixedOccurrences :
              \E b \in FixedOccurrences :
                /\ a # b
                /\ class_objs[a[1]].teacher = class_objs[b[1]].teacher
                /\ FixedSlotOf(a) = FixedSlotOf(b)}}

\* Two different teachers with a fixed occurrence in one slot
TwoTeachersSameFixedSlot ==
  \E a, b \in FixedOccurrences :
    /\ class_objs[a[1]].teacher # class_objs[b[1]].teacher
    /\ FixedSlotOf(a) = FixedSlotOf(b)

\* The call ended in the pre-flight: 'infeasible' with diagnostics, no attempt
RejectedByPreflight ==
  /\ status = "infeasible"
  /\ diagnostics.preflightErrors > 0
  /\ seeds_completed = 0
  /\ infeasible_count = 0
  /\ solver_calls = 0

\* C7 as stated: a call with an incomplete class, a teacher over 25 sessions
\* or a teacher with two fixed occurrences in one slot ends 'infeasible' with
\* diagnostics, seeds_completed = 0, infeasible_count = 0 and no solver call.
C7_PreflightRejects ==
  (pc = "done" /\ (ClassLacksField \/ TeacherOver25 \/ TeacherFixedTwice # {}))
  => RejectedByPreflight

\* C7 amended: the same, for a call whose teachers, classes, rules and grades
\* are all non-empty (a call missing one of them ends with status 'error').
C7_PreflightRejectsCompleteCall ==
  (pc = "done" /\ ~MissingInput /\ (ClassLacksField \/ TeacherOver25 \/ TeacherFixedTwice # {}))
  => RejectedByPreflight

\* A complete call rejected for a class that lacks a field
C7_Witness ==
  pc = "done" /\ ~MissingInput /\ ClassLacksField /\ RejectedByPreflight

\* C8 as stated: two teachers each with a class fixed to one (day, block) make
\* the pre-flight report a fixed-slot conflict and the call end 'infeasible'
\* with no attempt.
C8_TwoTeachersFixedConflict ==
  (pc = "done" /\ ~MissingInput /\ TwoTeachersSameFixedSlot)
  => (RejectedByPreflight /\ diagnostics.fixedSlotConflicts # {})

\* C8 amended: the pre-flight of a complete call reports exactly the (teacher,
\* slot) pairs in which one teacher has two fixed occurrences, and any such
\* pair ends the call 'infeasible' with no attempt; fixed occurrences of two
\* different teachers in one slot are not reported.
C8_SameTeacherFixedConflict ==
  (pc \notin {"start", "preflight"} /\ ~MissingInput)
  => /\ diagnostics.fixedSlotConflicts = TeacherFixedTwice
     /\ TeacherFixedTwice # {} => (pc = "done" /\ RejectedByPreflight)

\* A call rejected for teacher A's two classes fixed to (Mon, block 1)
C8_Witness ==
  /\ pc = "done"
  /\ inp.classes = FixedClashOneTeacher
  /\ diagnostics.fixedSlotConflicts = {<<"A", 0>>}
  /\ RejectedByPreflight

\* The regular classes (by index) of a teacher for a grade and subject
RegularClasses(grade, subject, teacher) ==
  {i \in DOMAIN class_objs : /\ ~class_objs[i].is_elective
                             /\ grade \in class_objs[i].grades
                             /\ class_objs[i].subject = subject
                             /\ class_objs[i].teacher = teacher}

RECURSIVE SumOver(_, _)
SumOver(S, f) == IF S = {} THEN 0
                 ELSE LET x == CHOOSE y \in S : TRUE IN f[x] + SumOver(S \ {x}, f)

\* The weekly sessions of one (grade, subject): the sessions of one teacher,
\* the largest number when several teachers co-teach the group
GroupLoad(grade, subject) ==
  LET teachers == {class_objs[i].teacher : i \in DOMAIN class_objs}
      per == [t \in teachers |->
                SumOver(RegularClasses(grade, subject, t),
                        [i \in DOMAIN class_objs |-> ClassCount(class_objs[i])])]
  IN SetMax({per[t] : t \in teachers})

\* The weekly regular sessions of a grade, each co-taught group counted once
GradeLoad(grade) ==
  LET subjects == {class_objs[i].subject : i \in DOMAIN class_objs}
  IN SumOver(subjects, [s \in subjects |-> GroupLoad(grade, s)])

\* C9 as stated: a complete call in which the regular classes of a grade add
\* up to more than 25 sessions a week ends 'infeasible' with no attempt and a
\* grade-overload diagnostic for that grade.
C9_GradeOverloadRejected ==
  (pc = "done" /\ ~MissingInput)
  => \A g \in Range(inp.grades) :
       GradeLoad(g) > 25 => (RejectedByPreflight /\ g \in diagnostics.gradeOverload)

\* C10 as stated: with study_hall_distribution disabled every candidate has
\* an empty study-hall list and a study-hall term of 0 in its score.
C10_DisabledStudyHallScoresZero ==
  ~is_rule_enabled(inp.rules, "study_hall_distribution") =>
    \A k \in DOMAIN candidates :
      /\ candidates[k].sh_assignments = <<>>
      /\ candidates[k].score - candidates[k].btb - candidates[k].spread = 0

\* C11 as stated: every candidate's score is (number of grades that require a
\* study hall - study halls placed) * 100 + back-to-back count + spread count,
\* the last two over the full-time teachers and 0 when their rule is disabled.
C11_ScoreUsesRequiredStudyHalls ==
  \A k \in DOMAIN candidates :
    candidates[k].score
      = (Len(get_study_hall_grades(inp.rules)) - candidates[k].sh_placed) * 100
        + TotalBtb(candidates[k].teacher_schedules, full_time_names(inp.teachers), inp.rules)
        + TotalSpread(candidates[k].teacher_schedules, full_time_names(inp.teachers), inp.rules)

\* The teachers of the call with a status the eligibility rule allows
AllowedStatusTeachers ==
  {i \in DOMAIN inp.teachers :
     inp.teachers[i].status \in get_study_hall_eligible_statuses(inp.rules)}

\* The names of the teachers some candidate gives a study hall
Supervisors ==
  UNION {{candidates[k].sh_assignments[i].teacher : i \in DOMAIN candidates[k].sh_assignments} :
           k \in DOMAIN candidates} \ {""}

TeacherNamed(name) == CHOOSE i \in DOMAIN inp.teachers : inp.teachers[i].name = name

\* C12 as stated: a supervisor has an allowed status and a flag that is unset or
\* true, and the eligible set holds every teacher with an allowed status whose
\* flag is unset or true.
C12_FlagFalseExcludes ==
  /\ \A n \in Supervisors :
       /\ \E i \in AllowedStatusTeachers : inp.teachers[i].name = n
       /\ inp.teachers[TeacherNamed(n)].can_supervise_study_hall \in {"None", "True"}
  /\ \A i \in AllowedStatusTeachers :
       inp.teachers[i].can_supervise_study_hall \in {"None", "True"}
       => inp.teachers[i].name \in Range(get_study_hall_eligible(inp.teachers, inp.rules))

\* C12, what get_study_hall_eligible does instead: the flag excludes.  A
\* supervisor has an allowed status and a flag that is unset or false, and the
\* eligible set is exactly the teachers with an allowed status whose flag is
\* unset or false.
C12_FlagTrueExcludes ==
  /\ \A n \in Supervisors :
       /\ \E i \in AllowedStatusTeachers : inp.teachers[i].name = n
       /\ inp.teachers[TeacherNamed(n)].can_supervise_study_hall \in {"None", "False"}
  /\ Range(get_study_hall_eligible(inp.teachers, inp.rules))
       = {inp.teachers[i].name :
            i \in {j \in AllowedStatusTeachers :
                      inp.teachers[j].can_supervise_study_hall \in {"None", "False"}}}

\* A candidate in which B, flag false, supervises a study hall and A, flag true
\* and with empty cells of its own, supervises none
C12_Witness ==
  /\ inp.teachers = FlaggedTeachers
  /\ \E k \in DOMAIN candidates :
       /\ \E i \in DOMAIN candidates[k].sh_assignments :
            candidates[k].sh_assignments[i].teacher = "B"
       /\ \A i \in DOMAIN candidates[k].sh_assignments :
            candidates[k].sh_assignments[i].teacher # "A"
       /\ "A" \in DOMAIN candidates[k].teacher_schedules
       /\ \E sl \in Slots : candidates[k].teacher_schedules["A"][sl] = OpenCell

RECURSIVE SeedsOf(_, _)
\* The seeds of the candidates that the solve calls k, k+1, ... of rets give:
\* one per returned solution, the call's seed start_seed + (k - 1)
SeedsOf(rets, k) ==
  IF k > Len(rets) THEN <<>>
  ELSE [j \in 1 .. Len(rets[k]) |-> inp.start_seed + (k - 1)] \o SeedsOf(rets, k + 1)

\* Between attempts and after the loop: the counter is the number of solve
\* calls that returned nothing, and the pool has one candidate per returned
\* solution, in the order of the calls
PoolAccountsForReturns ==
  pc \in {"search", "rank", "done"} =>
    /\ infeasible_count = Cardinality({i \in DOMAIN returned : returned[i] = <<>>})
    /\ [k \in DOMAIN candidates |-> candidates[k].seed] = SeedsOf(returned, 1)

\* A step in which a solve call returns nothing
EmptySolveStep ==
  /\ Len(returned') = Len(returned) + 1
  /\ returned'[Len(returned')] = <<>>

\* What a step does to the counter and to the pool
AttemptStep ==
  /\ EmptySolveStep =>
       /\ infeasible_count' = infeasible_count + 1
       /\ attempt' = attempt + 1
       /\ pc' = "search"
       /\ candidates' = candidates
       /\ status' = status /\ options' = options /\ all_solutions' = all_solutions
  /\ ~EmptySolveStep => infeasible_count' = infeasible_count
  /\ candidates' # candidates =>
       /\ pc = "post"
       /\ candidates' = Append(candidates,
                               PostProcess(returned[Len(returned)][sol_idx], sessions, inp,
                                           inp.start_seed + attempt, teacher_order))
       /\ sol_idx' = IF sol_idx = Len(returned[Len(returned)]) THEN 0 ELSE sol_idx + 1

\* C14: a solve call that returns nothing adds one to infeasible_count, leaves
\* the pool and the result alone and the loop goes to the next attempt; no
\* other step changes the counter; the pool grows only by the post-processing
\* of the next solution of the last call; so between attempts and at the end
\* infeasible_count is the number of calls that returned nothing and the pool
\* has exactly one candidate per returned solution.
C14_EmptyAttemptOnlyCounts == [](PoolAccountsForReturns) /\ [][AttemptStep]_vars

C14_Witness ==
  /\ pc = "done"
  /\ status = "success"
  /\ Len(returned) = 2
  /\ returned[1] = <<>>
  /\ Len(returned[2]) = 2
  /\ infeasible_count = 1
  /\ Len(candidates) = 2

\* The sequence seq with its elements computed once
Evaluated(seq) == SubSeq(seq, 1, Len(seq))

\* The pool indices of the alternates: the candidates in ascending, stable
\* score order, those that are the first of their grid, the first MaxUnique of
\* these
ExpectedAlternates ==
  LET n == Len(candidates)
      place == Evaluated([i \in 1 .. n |->
                 Cardinality({j \in 1 .. n :
                                \/ candidates[j].score < candidates[i].score
                                \/ candidates[j].score = candidates[i].score /\ j <= i})])
      byPlace == Evaluated([r \in 1 .. n |-> CHOOSE i \in 1 .. n : place[i] = r])
      first == Evaluated([r \in 1 .. n |->
                 \A q \in 1 .. (r - 1) :
                   candidates[byPlace[q]].teacher_schedules
                     # candidates[byPlace[r]].teacher_schedules])
      firsts == Evaluated([r \in 1 .. n |-> Cardinality({q \in 1 .. r : first[q]})])
      kept == {r \in 1 .. n : first[r] /\ firsts[r] <= MaxUnique}
  IN Evaluated([k \in 1 .. Cardinality(kept) |-> byPlace[CHOOSE r \in kept : firsts[r] = k]])

\* C15: when a call ends with 'success', allSolutions lists, in ascending
\* stable score order, the pool candidates that are the first of their grid,
\* up to the first 30 of them, and nothing else.
C15_AlternatesAreFirstDistinctByScore ==
  (pc = "done" /\ status = "success") =>
    LET expected == ExpectedAlternates
    IN /\ Len(all_solutions) = Len(expected)
       /\ \A k \in DOMAIN all_solutions :
            LET c == candidates[expected[k]]
            IN /\ all_solutions[k].index = k - 1
               /\ all_solutions[k].score = c.score
               /\ all_solutions[k].teacherSchedules = c.teacher_schedules
               /\ all_solutions[k].gradeSchedules = c.grade_schedules
               /\ all_solutions[k].studyHallAssignments = c.sh_assignments

\* More than 30 distinct grids in a pool with duplicates and unequal scores
C15_Witness ==
  /\ pc = "done"
  /\ status = "success"
  /\ Len(all_solutions) = MaxUnique
  /\ Cardinality({candidates[i].teacher_schedules : i \in DOMAIN candidates}) > MaxUnique
  /\ Cardinality({candidates[i].teacher_schedules : i \in DOMAIN candidates}) < Len(candidates)
  /\ \E i, j \in DOMAIN candidates : i < j /\ candidates[j].score < candidates[i].score

\* The slots at which class c, a fixed elective, is pinned
PinnedSlots(c) ==
  {day_block_to_slot(c.fixed_slots[k][1], c.fixed_slots[k][2]) :
     k \in {k \in DOMAIN c.fixed_slots : c.fixed_slots[k][1] \in DAYS /\ c.fixed_slots[k][2] \in BLOCKS}}

\* C16: the domain of every session of a non-fixed, non-elective class holds
\* no slot at which a fixed elective that covers one of the class's grades is
\* pinned.
C16_RegularDomainsAvoidPinnedElectives ==
  \A i \in DOMAIN sessions :
    (~sessions[i].is_fixed /\ ~sessions[i].is_elective) =>
      \A c \in Range(class_objs) :
        (c.is_elective /\ c.fixed_slots # <<>> /\ c.grades \cap sessions[i].grades # {}) =>
          sessions[i].valid_slots \cap PinnedSlots(c) = {}

C16_Witness ==
  /\ inp.classes = PinnedElective
  /\ pc = "done"
  /\ status = "success"
  /\ \E i \in DOMAIN sessions :
       /\ ~sessions[i].is_fixed /\ ~sessions[i].is_elective
       /\ sessions[i].valid_slots = Slots \ {day_block_to_slot(1, 2)}

\* The attempt the last solve call belonged to
LastAttempt == seeds_completed - 1

\* C17 as claimed: the limit of the last solve call is
\* min(10, (max_time_seconds - elapsed) / (num_attempts - attempt)), from the
\* budget and the attempts that remained when the attempt started.
C17_LimitFromRemainingAttempts ==
  solver_calls > 0 =>
    RatEq(attempt_time,
          RatMin(<<10, 1>>, <<inp.max_time_seconds - elapsed, inp.num_attempts - LastAttempt>>))

\* C17 amended: the limit of the last solve call is the least of 10 s, the
\* whole budget divided by the whole number of attempts, and the budget left
\* less the 5 s buffer; it is never negative.
C17_LimitFromFixedShare ==
  solver_calls > 0 =>
    /\ RatEq(attempt_time,
             RatMin(RatMin(<<10, 1>>, <<inp.max_time_seconds, inp.num_attempts>>),
                    <<inp.max_time_seconds - elapsed - 5, 1>>))
    /\ RatLeq(<<0, 1>>, attempt_time)
    /\ elapsed <= inp.max_time_seconds - 5

\* A second attempt that starts late: the buffer, not the share, limits it
C17_Witness ==
  /\ solver_calls = 2
  /\ inp.num_attempts = 2
  /\ elapsed > 0
  /\ RatEq(attempt_time, <<inp.max_time_seconds - elapsed - 5, 1>>)
  /\ ~RatEq(attempt_time, <<inp.max_time_seconds, inp.num_attempts>>)

IsPrefix(a, b) == Len(a) <= Len(b) /\ a = SubSeq(b, 1, Len(a))

C19_SatisfiableRequestSucceeds ==
  (request # NoRequest /\ pc = "done") =>
    /\ inp.teachers = request.teachers
    /\ inp.classes = request.classes
    /\ inp.num_options = request.numOptions
    /\ inp.num_attempts = request.numAttempts
    /\ inp.max_time_seconds = request.maxTimeSeconds
    /\ inp.rules = request.rules
    /\ SolveResponse.status = status
    /\ SolveResponse.options = options
    /\ (request.teachers = FullTimeTeachers /\ request.classes = BasicClasses) =>
         SolveResponse.status = "success"

\* C20 as claimed: in every candidate each fixed session's cell holds its
\* class, and every teaching cell of a teacher lies in the domain of one of
\* the teacher's sessions of that class.
C20_ClassesStayInTheirDomains ==
  \A k \in DOMAIN candidates :
    LET ts == candidates[k].teacher_schedules
    IN /\ \A i \in DOMAIN sessions :
            sessions[i].is_fixed =>
              \A sl \in sessions[i].valid_slots : ts[sessions[i].teacher][sl] = SessionEntry(sessions[i])
       /\ \A t \in SessionTeachers(sessions) :
            \A sl \in TeachingCells(ts, t) :
              \E i \in SessionsOfTeacher(t) :
                /\ SessionEntry(sessions[i]) = ts[t][sl]
                /\ sl \in sessions[i].valid_slots

\* ------------------------------------------------------------------
\* Calls whose grids exercise study-hall placement, the back-to-back
\* repair and co-teaching
\* ------------------------------------------------------------------
\* Two adjacent classes of one teacher fixed on Tuesday: both study halls
\* go to the teacher's first two Monday blocks
StudyHallsFirst ==
  <<Cls("A", {1}, "Math", 1, FALSE, {}, {}, <<<<1, 0>>>>),
    Cls("A", {1}, "Sci", 1, FALSE, {}, {}, <<<<1, 1>>>>)>>

\* Two electives in one slot, one for grades 1 and 2 and one for grade 2,
\* and a regular class of grade 2 on Tuesday
OverlappingElectives ==
  <<Cls("A", {1, 2}, "Art", 1, TRUE, {}, {}, <<<<0, 4>>>>),
    Cls("A", {3}, "Math", 1, FALSE, {}, {}, <<<<0, 3>>>>),
    Cls("B", {2}, "Music", 1, TRUE, {}, {}, <<<<0, 4>>>>),
    Cls("B", {2}, "Sci", 1, FALSE, {}, {}, <<<<1, 1>>>>)>>

\* The same two electives, and a regular Art class of grade 2 on Tuesday
ElectiveAndRegularArt ==
  <<Cls("A", {1, 2}, "Art", 1, TRUE, {}, {}, <<<<0, 4>>>>),
    Cls("A", {3}, "Math", 1, FALSE, {}, {}, <<<<0, 3>>>>),
    Cls("B", {2}, "Music", 1, TRUE, {}, {}, <<<<0, 4>>>>),
    Cls("A", {2}, "Art", 1, FALSE, {}, {}, <<<<1, 0>>>>)>>

\* An elective co-taught by A and B, and a class of A beside it
CoTaughtPair ==
  <<Cls("A", {1}, "Art", 1, TRUE, {0}, {0, 1}, <<>>),
    Cls("B", {1}, "Art", 1, TRUE, {0}, {0, 1}, <<>>),
    Cls("A", {2}, "Math", 1, FALSE, {0}, {0, 1}, <<>>)>>

\* A regular class co-taught by A and B, once a week, available in every slot
CoTaughtRegular ==
  <<Cls("A", {1}, "Math", 1, FALSE, {}, {}, <<>>),
    Cls("B", {1}, "Math", 1, FALSE, {}, {}, <<>>)>>

\* The last two blocks of Monday and of Tuesday, one teacher, two grades
TwoAfternoons ==
  <<Cls("A", {1}, "Math", 1, FALSE, {}, {}, <<<<0, 3>>>>),
    Cls("A", {1}, "Sci", 1, FALSE, {}, {}, <<<<0, 4>>>>),
    Cls("A", {2}, "Art", 1, FALSE, {}, {}, <<<<1, 3>>>>),
    Cls("A", {2}, "Music", 1, FALSE, {}, {}, <<<<1, 4>>>>)>>

EverySlot == [i \in 1 .. NUM_SLOTS |-> <<slot_to_day(i - 1), slot_to_block(i - 1)>>]

\* Grade 1 has an elective in every slot of the week; B has one class
FullGrade ==
  <<Cls("A", {1}, "Art", NUM_SLOTS, TRUE, {}, {}, EverySlot),
    Cls("B", {3}, "Sci", 1, FALSE, {}, {}, <<<<0, 0>>>>)>>

GridClassLists ==
  {BasicClasses, AdjacentClasses, StudyHallsFirst, OverlappingElectives, ElectiveAndRegularArt,
   CoTaughtPair, CoTaughtRegular, FullGrade, TwoAfternoons}

GridInputs ==
  {MakeInput(FullTimeTeachers, cl, rl, DatabaseGrades, MaxAttempts) :
     cl \in GridClassLists,
     rl \in {BaseRules, BaseRules \o <<Rule("study_hall_distribution", FALSE)>>}}

NextGrids ==
  \/ Validate
  \/ Preflight
  \/ Solve
  \/ Process
  \/ LoopEnd
  \/ Rank

SpecGrids == InitFrom(GridInputs) /\ [][NextGrids]_vars

\* The raw assignments post-processed so far, in the order of the candidates
RECURSIVE Flatten(_)
Flatten(lists) == IF lists = <<>> THEN <<>> ELSE Head(lists) \o Flatten(Tail(lists))

\* What led to candidate k: the grids before the repair and its swaps
Unrepaired(k) == BeforeRepair(Flatten(returned)[k], sessions, inp)

\* The function f with its values computed once
Forced(f) == IF f = f THEN f ELSE f

\* The swaps of the repair that starts from the grids u
SwapsFrom(u) ==
  IF is_rule_enabled(inp.rules, "no_btb_open")
  THEN Evaluated(RepairSwaps(Forced(u.ts), Forced(u.gs), unlocked_full_time(inp),
                             RepairPasses))
  ELSE <<>>

SwapsOf(k) == SwapsFrom(Unrepaired(k))

\* The grids the repair that starts from u and makes swaps ends with
LastGrids(u, swaps) ==
  IF swaps = <<>> THEN <<u.ts, u.gs>>
  ELSE <<swaps[Len(swaps)].ts_after, swaps[Len(swaps)].gs_after>>

\* The grades and the elective flag of the class behind a teaching cell
CellGrades(t, cell) ==
  UNION {sessions[i].grades : i \in {j \in SessionsOfTeacher(t) : SessionEntry(sessions[j]) = cell}}

CellIsElective(t, cell) ==
  \A i \in SessionsOfTeacher(t) : SessionEntry(sessions[i]) = cell => sessions[i].is_elective

\* Two classes of different teachers share a slot and a grade, not both electives
GradeClash(ts) ==
  \E t, u \in DOMAIN ts : \E sl \in Slots :
    /\ t # u
    /\ IsTeaching(ts[t][sl]) /\ IsTeaching(ts[u][sl])
    /\ CellGrades(t, ts[t][sl]) \cap CellGrades(u, ts[u][sl]) # {}
    /\ ~(CellIsElective(t, ts[t][sl]) /\ CellIsElective(u, ts[u][sl]))

\* C21: every swap of the repair moves a class to a slot where no other
\* teacher has a class covering one of its grades, and the final teacher grids
\* of every candidate keep the grades exclusive (electives may coincide).
C21_SwapsKeepGradesExclusive ==
  \A k \in DOMAIN candidates :
    /\ \A n \in DOMAIN SwapsOf(k) :
         LET w == SwapsOf(k)[n]
             moved == CellGrades(w.teacher, w.ts[w.teacher][w.target])
         IN \A u \in DOMAIN w.ts :
              (u # w.teacher /\ IsTeaching(w.ts[u][w.issue]))
                => CellGrades(u, w.ts[u][w.issue]) \cap moved = {}
    /\ (~GradeClash(Unrepaired(k).ts) => ~GradeClash(candidates[k].teacher_schedules))

\* Some grade has one subject in two slots of one day
SubjectTwiceADay(ts) ==
  \E t, u \in DOMAIN ts : \E a, b \in Slots :
    /\ a # b
    /\ slot_to_day(a) = slot_to_day(b)
    /\ IsTeaching(ts[t][a]) /\ IsTeaching(ts[u][b])
    /\ ts[t][a].s = ts[u][b].s
    /\ CellGrades(t, ts[t][a]) \cap CellGrades(u, ts[u][b]) # {}

\* C22: every swap of the repair moves a class to a day on which no grade it
\* covers has that subject in another slot, and a candidate whose grids had no
\* subject twice on a day for a grade before the repair has none after it.
C22_SwapsKeepSubjectsOncePerDay ==
  \A k \in DOMAIN candidates :
    /\ \A n \in DOMAIN SwapsOf(k) :
         LET w == SwapsOf(k)[n]
             entry == w.ts[w.teacher][w.target]
             moved == CellGrades(w.teacher, entry)
         IN \A u \in DOMAIN w.ts : \A sl \in Slots :
              (/\ slot_to_day(sl) = slot_to_day(w.issue)
               /\ <<u, sl>> # <<w.teacher, w.target>>
               /\ IsTeaching(w.ts[u][sl])
               /\ w.ts[u][sl].s = entry.s)
              => CellGrades(u, w.ts[u][sl]) \cap moved = {}
    /\ (~SubjectTwiceADay(Unrepaired(k).ts) => ~SubjectTwiceADay(candidates[k].teacher_schedules))

\* The session list is one regular (grade, subject) group taught by two
\* teachers with equal session counts, every session available in every slot
OneCoTaughtRegularGroup ==
  \E gs \in GradeSubjects :
    /\ Cardinality(GroupTeachers(sessions, gs[1], gs[2])) = 2
    /\ EqualSessionCounts(gs[1], gs[2])
    /\ \A i \in DOMAIN sessions :
         /\ gs[1] \in sessions[i].grades
         /\ sessions[i].subject = gs[2]
         /\ ~sessions[i].is_elective
         /\ sessions[i].valid_slots = Slots

\* C23: the constraints emitted for a regular class co-taught by two teachers
\* with equal session counts and full availability admit an assignment.
C23_CoTaughtRegularSatisfiable ==
  OneCoTaughtRegularGroup => SolverPool(sessions, inp.rules, inp.grades) # {}

\* The slots of a teacher's grid that hold a class of a (grade, subject) group
GroupSlots(ts, t, grade, subject) ==
  LET idx == GroupSessions(sessions, grade, subject, t)
  IN {sl \in Slots : /\ IsTeaching(ts[t][sl])
                     /\ \E i \in DOMAIN idx : ts[t][sl] = SessionEntry(sessions[idx[i]])}

\* C24: in every candidate, the teachers of a (grade, subject) group with
\* equal session counts, whose sessions the solver put in the same slots, have
\* the group's classes in the same slots of their final grids.
C24_RepairKeepsCoTeachersTogether ==
  \A k \in DOMAIN candidates : \A gs \in GradeSubjects :
    (Cardinality(GroupTeachers(sessions, gs[1], gs[2])) >= 2 /\ EqualSessionCounts(gs[1], gs[2]))
    => \A t, u \in GroupTeachers(sessions, gs[1], gs[2]) :
         GroupSlots(candidates[k].teacher_schedules, t, gs[1], gs[2])
           = GroupSlots(candidates[k].teacher_schedules, u, gs[1], gs[2])

\* The (teacher, slot) cells of the grids that hold a study hall
StudyHallCells(ts) ==
  {c \in (DOMAIN ts) \X Slots : ts[c[1]][c[2]].s = "Study Hall"}

\* C25: in every candidate, each study-hall assignment that names a teacher is
\* a Study Hall cell of its group at its (day, block) in that teacher's final
\* grid, and sh_placed is the number of Study Hall cells of the final grids.
C25_StudyHallListMatchesGrids ==
  \A k \in DOMAIN candidates :
    LET ts == candidates[k].teacher_schedules
        sh == candidates[k].sh_assignments
    IN /\ \A i \in DOMAIN sh :
            sh[i].teacher # "" =>
              /\ sh[i].teacher \in DOMAIN ts
              /\ ts[sh[i].teacher][day_block_to_slot(sh[i].day, sh[i].block)]
                   = StudyHallCell(sh[i].group)
       /\ candidates[k].sh_placed = Cardinality(StudyHallCells(ts))

\* The entries of a study-hall list that name a teacher
PlacedEntries(sh) == {i \in DOMAIN sh : sh[i].teacher # ""}

BtbPairs(ts, teacher) == Cardinality(get_back_to_back_slots(ts, teacher))

\* The grids the repair loop ends with for candidate k
RepairedGrids(k) ==
  LET u == Unrepaired(k)
  IN LastGrids(u, SwapsFrom(u))

\* C27: for every candidate made with no_btb_open enabled, every swap of the
\* repair strictly lowers the moved teacher's number of adjacent open pairs
\* and leaves no pair at the slot the class came from; the loop ends before
\* its pass limit, its last grids are the candidate's teacher grids, and in
\* them no full-time teacher has a valid swap left.
C27_RepairEndsWithNoSwapLeft ==
  \A k \in DOMAIN candidates :
    is_rule_enabled(inp.rules, "no_btb_open") =>
      LET u == Unrepaired(k)
          swaps == SwapsFrom(u)
          last == LastGrids(u, swaps)
          names == unlocked_full_time(inp)
      IN /\ \A n \in DOMAIN swaps :
              LET w == swaps[n]
              IN /\ BtbPairs(w.ts_after, w.teacher) < BtbPairs(w.ts, w.teacher)
                 /\ get_back_to_back_slots(w.ts_after, w.teacher)
                      \subseteq get_back_to_back_slots(w.ts, w.teacher)
                 /\ ~would_create_btb(w.ts_after, w.teacher, w.target)
         /\ Len(swaps) < RepairPasses
         /\ candidates[k].teacher_schedules = last[1]
         /\ \A i \in DOMAIN names : ValidSwaps(last[1], last[2], names[i]) = {}

\* A candidate whose repair made two swaps or more
C27_Witness ==
  \E k \in DOMAIN candidates :
    is_rule_enabled(inp.rules, "no_btb_open") /\ Len(SwapsOf(k)) >= 2

\* C29: once solve_with_cpsat has been called on a session list in which
\* filtering left a session without a slot, no exception has left the call and
\* every solve call so far is counted as an infeasible attempt.
C29_EmptyDomainIsInfeasibleAttempt ==
  (HasEmptyDomain(sessions) /\ solver_calls > 0)
    => (status # "raised" /\ infeasible_count = solver_calls)

\* ------------------------------------------------------------------
\* Calls that skip the top solutions
\* ------------------------------------------------------------------
\* The largest skip_top_solutions and num_options of the calls
MaxSkip == 3
MaxOptions == 2

SkipInputs ==
  {[MakeInput(FullTimeTeachers, cl, BaseRules, DatabaseGrades, MaxAttempts)
      EXCEPT !.skip_top_solutions = skip, !.num_options = n] :
     cl \in {BasicClasses, AdjacentClasses}, skip \in 0 .. MaxSkip, n \in 1 .. MaxOptions}

NextSkip ==
  \/ Validate
  \/ Preflight
  \/ Solve
  \/ Process
  \/ LoopEnd
  \/ Rank

SpecSkip == InitFrom(SkipInputs) /\ [][NextSkip]_vars

\* C30: a call with num_options >= 1 that ends with status 'success' has at
\* least one option, whatever skip_top_solutions is.
C30_SuccessHasOptions ==
  (status = "success" /\ inp.num_options >= 1) => options # <<>>

\* ------------------------------------------------------------------
\* Partial regeneration: calls with a locked teacher
\* ------------------------------------------------------------------
\* B teaches grade 3 in the first two blocks of Monday and supervises the
\* study hall of grade 2 on Tuesday; the other cells are empty
LockedMorning ==
  [sl \in Slots |->
     CASE sl = 0 -> [d |-> <<3, 3>>, s |-> "Sci"]
       [] sl = 1 -> [d |-> <<3, 3>>, s |-> "Art"]
       [] sl = 5 -> StudyHallCell(2)
       [] OTHER -> NoneCell]

\* B teaches grade 1 and grade 3 in the first two blocks of Monday; the other
\* cells are OPEN
LockedGradeOne ==
  [sl \in Slots |->
     CASE sl = 0 -> [d |-> <<1, 1>>, s |-> "Hist"]
       [] sl = 1 -> [d |-> <<3, 3>>, s |-> "Art"]
       [] OTHER -> OpenCell]

PartialInputs ==
  {[MakeInput(FullTimeTeachers, p[1], BaseRules, DatabaseGrades, MaxAttempts)
      EXCEPT !.locked_teachers = <<[name |-> "B", schedule |-> p[2]]>>,
             !.allow_study_hall_reassignment = reassign] :
     p \in ({BasicClasses, AdjacentClasses, StudyHallsFirst, TwoAfternoons} \X {LockedMorning})
           \cup ({BasicClasses, TwoAfternoons} \X {LockedGradeOne}),
     reassign \in BOOLEAN}

NextPartial ==
  \/ Validate
  \/ Preflight
  \/ Solve
  \/ Process
  \/ LoopEnd
  \/ Rank

SpecPartial == InitFrom(PartialInputs) /\ [][NextPartial]_vars

\* C28: in every candidate of a partial regeneration, the grid of each locked
\* teacher holds the supplied entry in every cell the supplied schedule fills
\* and OPEN in every cell it leaves empty.
C28_LockedGridsAreKept ==
  \A k \in DOMAIN candidates : \A i \in DOMAIN inp.locked_teachers :
    LET name == inp.locked_teachers[i].name
        supplied == inp.locked_teachers[i].schedule
        ts == candidates[k].teacher_schedules
    IN /\ name \in DOMAIN ts
       /\ \A sl \in Slots :
            ts[name][sl] = IF supplied[sl] = NoneCell THEN OpenCell ELSE supplied[sl]

\* A candidate of a partial regeneration in which an unlocked teacher was
\* given a study hall and the repair moved a class, while the locked teacher,
\* full-time, still has a class the repair would accept to move
C28_Witness ==
  /\ inp.locked_teachers # <<>>
  /\ \E k \in DOMAIN candidates :
       LET sh == candidates[k].sh_assignments
       IN /\ SwapsOf(k) # <<>>
          /\ \E i \in PlacedEntries(sh) : sh[i].teacher \notin LockedNames(inp.locked_teachers)
          /\ \E i \in DOMAIN inp.locked_teachers :
               /\ inp.locked_teachers[i].name \in Range(full_time_names(inp.teachers))
               /\ ValidSwaps(RepairedGrids(k)[1], RepairedGrids(k)[2],
                             inp.locked_teachers[i].name) # {}

=========================================================================
